---- MODULE Spec2Model ----
(***************************************************************************)
(* A model of wikidump_xml_to_markdown_fast.py: the wikitext -> Markdown   *)
(* conversion pipeline (wikitext_to_markdown) and the balanced-brace       *)
(* template scan inside it (remove_complex_templates).                     *)
(*                                                                         *)
(* Text is a sequence of one-character strings.  One element, FILL, is     *)
(* not a character: it stands for a run of fillLen copies of the plain     *)
(* letter x at the very end of a document, so that documents longer than   *)
(* the program's size limits (5,000 / 10,000 / 1,000,000 / 2,000,000       *)
(* characters) are states of the model.                                    *)
(***************************************************************************)
EXTENDS Integers, Sequences, FiniteSets, TLC

(***************************************************************************)
(* Characters and character classes of Python's re module.                 *)
(***************************************************************************)
FILL == "x*"

Lower == {"a","b","c","d","e","f","g","h","i","j","k","l","m","n","o","p","q","r","s","t","u","v","w","x","y","z"}
Upper == {"A","B","C","D","E","F","G","H","I","J","K","L","M","N","O","P","Q","R","S","T","U","V","W","X","Y","Z"}
Digit == {"0","1","2","3","4","5","6","7","8","9"}
HexDigit == Digit \cup {"a","b","c","d","e","f","A","B","C","D","E","F"}
Alpha == Lower \cup Upper
\* the printable ASCII characters, the code points 32 to 126 (at 96, the
\* name of the grave accent)
AsciiPrintable ==
    <<" ","!","\"","#","$","%","&","'","(",")","*","+",",","-",".","/","0","1","2","3","4","5","6","7","8","9",":",";","<","=",">","?","@","A","B","C","D","E","F","G","H","I","J","K","L","M","N","O",
     "P","Q","R","S","T","U","V","W","X","Y","Z","[","\\","]","^","_","U+96","a","b","c","d","e","f","g","h","i","j","k","l","m","n","o","p","q","r","s","t","u","v","w","x","y","z","{","|","}","~">>

\* chr(n): an ASCII character is itself; any other character, and the
\* grave accent (which a TLA+ string cannot hold), is named by its code point
Chr(n) ==
    CASE n = 9 -> "\t" [] n = 10 -> "\n" [] n = 12 -> "\f" [] n = 13 -> "\r"
      [] n \in 32..126 \ {96} -> AsciiPrintable[n - 31]
      [] OTHER -> "U+" \o ToString(n)

\* the code points of the characters that \s matches and str.strip() removes
SpaceCodes ==
    (9..13) \cup (28..32) \cup {133, 160, 5760} \cup (8192..8202)
        \cup {8232, 8233, 8239, 8287, 12288}
\* \s
Space == {Chr(n) : n \in SpaceCodes}
\* \w (the run of x that FILL stands for is made of word characters)
WordChar == Alpha \cup Digit \cup {"_", FILL}

UpperOf == [c \in Lower |->
    CASE c = "a" -> "A" [] c = "b" -> "B" [] c = "c" -> "C" [] c = "d" -> "D"
      [] c = "e" -> "E" [] c = "f" -> "F" [] c = "g" -> "G" [] c = "h" -> "H"
      [] c = "i" -> "I" [] c = "j" -> "J" [] c = "k" -> "K" [] c = "l" -> "L"
      [] c = "m" -> "M" [] c = "n" -> "N" [] c = "o" -> "O" [] c = "p" -> "P"
      [] c = "q" -> "Q" [] c = "r" -> "R" [] c = "s" -> "S" [] c = "t" -> "T"
      [] c = "u" -> "U" [] c = "v" -> "V" [] c = "w" -> "W" [] c = "x" -> "X"
      [] c = "y" -> "Y" [] c = "z" -> "Z"]

\* str.lower() of one character
LowerChar(c) ==
    IF c \in Upper THEN CHOOSE l \in Lower : UpperOf[l] = c ELSE c

\* str.lower()
LowerStr(t) == [n \in 1..Len(t) |-> LowerChar(t[n])]

(***************************************************************************)
(* Regular expressions: the patterns of the source are written as trees    *)
(* and matched by a backtracking matcher with the priorities of Python's   *)
(* re (leftmost match, greedy and lazy repetition, alternation in order).  *)
(***************************************************************************)
\* [set]
In(set) == [k |-> "in", set |-> set]
\* [^set]
NotIn(set) == [k |-> "notin", set |-> set]
\* . under re.DOTALL
AnyChar == [k |-> "notin", set |-> {}]
\* . without re.DOTALL
Dot == [k |-> "notin", set |-> {"\n"}]
\* a literal string
Lit(s) == [k |-> "lit", s |-> s, ci |-> FALSE]
\* a literal string under re.IGNORECASE
LitI(s) == [k |-> "lit", s |-> s, ci |-> TRUE]
Cat(rs) == [k |-> "cat", rs |-> rs]
Alt(rs) == [k |-> "alt", rs |-> rs]
\* r{min,max}, greedy or lazy; max = -1 is no upper limit
Rep(r, min, max, lazy) == [k |-> "rep", r |-> r, min |-> min, max |-> max, lazy |-> lazy]
Star(r) == Rep(r, 0, -1, FALSE)
Plus(r) == Rep(r, 1, -1, FALSE)
Opt(r) == Rep(r, 0, 1, FALSE)
LazyStar(r) == Rep(r, 0, -1, TRUE)
\* (r) as capture group n
Grp(n, r) == [k |-> "grp", n |-> n, r |-> r]
\* ^ and $, with and without re.MULTILINE
Bol == [k |-> "bol", m |-> FALSE]
BolM == [k |-> "bol", m |-> TRUE]
Eol == [k |-> "eol", m |-> FALSE]
EolM == [k |-> "eol", m |-> TRUE]
\* \b
WordB == [k |-> "wordb"]
\* (?!r)
NegAhead(r) == [k |-> "nla", r |-> r]
\* (?<!r), r one character wide
NegBehind(r) == [k |-> "nlb", r |-> r]

\* the number of capture groups kept by a match
NGroups == 3
NoCaps == [g \in 1..NGroups |-> <<0, 0>>]
NoMatch == [ok |-> FALSE, s |-> 0, e |-> 0, c |-> NoCaps]

CharEq(a, b, ci) == IF ci THEN LowerChar(a) = LowerChar(b) ELSE a = b

LitAt(t, s, lit, ci) ==
    /\ s + Len(lit) - 1 <= Len(t)
    /\ \A n \in 1..Len(lit) : CharEq(t[s + n - 1], lit[n], ci)

IsWordAt(t, p) == p >= 1 /\ p <= Len(t) /\ t[p] \in WordChar

InClass(r, c) == IF r.k = "in" THEN c \in r.set ELSE c \notin r.set

\* the number of characters from position s on that are in the class r
RunLength(r, t, s) ==
    LET stop == CHOOSE p \in s..(Len(t) + 1) :
                   /\ p = Len(t) + 1 \/ ~InClass(r, t[p])
                   /\ \A q \in s..(p - 1) : InClass(r, t[q])
    IN stop - s

\* the least and the greatest member of a non-empty set of integers
Least(ns) == CHOOSE n \in ns : \A m \in ns : n <= m
Greatest(ns) == CHOOSE n \in ns : \A m \in ns : n >= m

\* the regular expression r once and then as often more as r{min,max} asks
OnceMore(r, s) ==
    <<r.r, [k |-> "adv", p |-> s],
      Rep(r.r, IF r.min > 0 THEN r.min - 1 ELSE 0, IF r.max > 0 THEN r.max - 1 ELSE r.max,
          r.lazy)>>

\* Match the regular expressions rs, one after the other, in t from position s.
\* The result is the first match in backtracking order: [ok, s, e, c] with
\* t[s..e-1] the matched text and c[n] the (start, end) of capture group n.
RECURSIVE MatchSeq(_, _, _, _)
MatchSeq(rs, t, s, caps) ==
    CASE rs = << >> -> [ok |-> TRUE, s |-> s, e |-> s, c |-> caps]
      [] Head(rs).k = "in" /\ s <= Len(t) /\ t[s] \in Head(rs).set ->
           MatchSeq(Tail(rs), t, s + 1, caps)
      [] Head(rs).k = "notin" /\ s <= Len(t) /\ t[s] \notin Head(rs).set ->
           MatchSeq(Tail(rs), t, s + 1, caps)
      [] Head(rs).k = "lit" /\ LitAt(t, s, Head(rs).s, Head(rs).ci) ->
           MatchSeq(Tail(rs), t, s + Len(Head(rs).s), caps)
      [] Head(rs).k = "cat" -> MatchSeq(Head(rs).rs \o Tail(rs), t, s, caps)
      [] Head(rs).k = "alt" /\ Head(rs).rs # << >> ->
           LET first == MatchSeq(<<Head(Head(rs).rs)>> \o Tail(rs), t, s, caps)
           IN IF first.ok THEN first
              ELSE MatchSeq(<<Alt(Tail(Head(rs).rs))>> \o Tail(rs), t, s, caps)
      [] Head(rs).k = "rep" /\ Head(rs).r.k \in {"in", "notin"} ->
           \* a repeated character class: of the lengths of the run it can
           \* take and the rest then matches, the greatest (greedy) or the
           \* least (lazy)
           LET run == RunLength(Head(rs).r, t, s)
               hi == IF Head(rs).max >= 0 /\ Head(rs).max < run THEN Head(rs).max ELSE run
               fits == {n \in Head(rs).min..hi : MatchSeq(Tail(rs), t, s + n, caps).ok}
           IN IF fits = {} THEN NoMatch
              ELSE MatchSeq(Tail(rs), t,
                            s + (IF Head(rs).lazy THEN Least(fits) ELSE Greatest(fits)), caps)
      [] Head(rs).k = "rep" /\ Head(rs).max = 0 -> MatchSeq(Tail(rs), t, s, caps)
      [] Head(rs).k = "rep" /\ Head(rs).min > 0 ->
           MatchSeq(OnceMore(Head(rs), s) \o Tail(rs), t, s, caps)
      [] Head(rs).k = "rep" /\ Head(rs).lazy ->
           LET stop == MatchSeq(Tail(rs), t, s, caps)
           IN IF stop.ok THEN stop
              ELSE MatchSeq(OnceMore(Head(rs), s) \o Tail(rs), t, s, caps)
      [] Head(rs).k = "rep" ->
           LET more == MatchSeq(OnceMore(Head(rs), s) \o Tail(rs), t, s, caps)
           IN IF more.ok THEN more ELSE MatchSeq(Tail(rs), t, s, caps)
      [] Head(rs).k = "adv" /\ s > Head(rs).p -> MatchSeq(Tail(rs), t, s, caps)
      [] Head(rs).k = "grp" ->
           MatchSeq(<<Head(rs).r, [k |-> "end", n |-> Head(rs).n, p |-> s]>> \o Tail(rs),
                    t, s, caps)
      [] Head(rs).k = "end" ->
           MatchSeq(Tail(rs), t, s, [caps EXCEPT ![Head(rs).n] = <<Head(rs).p, s>>])
      [] Head(rs).k = "bol" /\ (s = 1 \/ (Head(rs).m /\ s > 1 /\ t[s - 1] = "\n")) ->
           MatchSeq(Tail(rs), t, s, caps)
      [] /\ Head(rs).k = "eol"
         /\ \/ s = Len(t) + 1
            \/ (s = Len(t) /\ t[s] = "\n")
            \/ (Head(rs).m /\ s <= Len(t) /\ t[s] = "\n") ->
           MatchSeq(Tail(rs), t, s, caps)
      [] Head(rs).k = "wordb" /\ IsWordAt(t, s - 1) # IsWordAt(t, s) ->
           MatchSeq(Tail(rs), t, s, caps)
      [] Head(rs).k = "nla" /\ ~MatchSeq(<<Head(rs).r>>, t, s, caps).ok ->
           MatchSeq(Tail(rs), t, s, caps)
      [] Head(rs).k = "nlb" /\ ~(s > 1 /\ MatchSeq(<<Head(rs).r>>, t, s - 1, caps).ok) ->
           MatchSeq(Tail(rs), t, s, caps)
      [] OTHER -> NoMatch

\* pattern.match at position s
MatchAt(r, t, s) == [MatchSeq(<<r>>, t, s, NoCaps) EXCEPT !.s = s]

\* re.search from position s: the match at the leftmost position that has one
SearchFrom(r, t, s) ==
    LET found == {p \in s..(Len(t) + 1) : MatchSeq(<<r>>, t, p, NoCaps).ok}
    IN IF found = {} THEN NoMatch ELSE MatchAt(r, t, Least(found))

\* re.search
Search(r, t) == SearchFrom(r, t, 1)

\* the text t[a..b-1]
Slice(t, a, b) == IF b <= a THEN << >> ELSE SubSeq(t, a, b - 1)

\* match.group(n); a group that took no part in the match gives ''
Group(t, m, n) == Slice(t, m.c[n][1], m.c[n][2])

\* match.group(0)
Group0(t, m) == Slice(t, m.s, m.e)

\* A replacement template: a sequence of literal pieces [g |-> 0, s |-> text]
\* and group references \n, [g |-> n, s |-> << >>].
T(s) == [g |-> 0, s |-> s]
G(n) == [g |-> n, s |-> << >>]

RECURSIVE Expand(_, _, _)
Expand(repl, t, m) ==
    IF repl = << >> THEN << >>
    ELSE LET h == Head(repl)
         IN (IF h.g = 0 THEN h.s ELSE IF h.g < 0 THEN Group0(t, m) ELSE Group(t, m, h.g))
            \o Expand(Tail(repl), t, m)

\* pattern.finditer(t): the non-overlapping matches from the match m on,
\* leftmost first. (No pattern of the source matches the empty string.)
RECURSIVE MatchesAfter(_, _, _)
MatchesAfter(r, t, m) ==
    IF ~m.ok \/ m.e = m.s THEN << >>
    ELSE <<m>> \o MatchesAfter(r, t, SearchFrom(r, t, m.e))

Matches(r, t) == MatchesAfter(r, t, SearchFrom(r, t, 1))

RECURSIVE Flatten(_)
Flatten(ss) == IF ss = << >> THEN << >> ELSE Head(ss) \o Flatten(Tail(ss))

\* t with the text of each match ms[k] replaced by repls[k]
Splice(t, ms, repls) ==
    Flatten([k \in 1..Len(ms) |->
                Slice(t, IF k = 1 THEN 1 ELSE ms[k - 1].e, ms[k].s) \o repls[k]])
        \o Slice(t, IF ms = << >> THEN 1 ELSE ms[Len(ms)].e, Len(t) + 1)

\* t with every match of ms replaced by the expansion of the template repl
SubAt(repl, t, ms) ==
    IF ms = << >> THEN t ELSE Splice(t, ms, [k \in 1..Len(ms) |-> Expand(repl, t, ms[k])])

\* re.sub(r, repl, t): every non-overlapping match, leftmost first, replaced
Sub(r, repl, t) == IF t = << >> THEN t ELSE SubAt(repl, t, Matches(r, t))

\* for pattern, repl in rules: t = re.sub(pattern, repl, t): the first
\* half of the rules, then the second half on what the first gives.
\* (No pattern matches in the empty text.)
RECURSIVE SubAll(_, _)
SubAll(rules, t) ==
    IF rules = << >> \/ t = << >> THEN t
    ELSE IF Len(rules) = 1 THEN Sub(rules[1][1], rules[1][2], t)
    ELSE SubAll(SubSeq(rules, Len(rules) \div 2 + 1, Len(rules)),
                SubAll(SubSeq(rules, 1, Len(rules) \div 2), t))

\* needle in haystack
Contains(t, needle) ==
    \E s \in 1..(Len(t) - Len(needle) + 1) : LitAt(t, s, needle, FALSE)

\* match.group(0) in a replacement template (\g<0>)
G0 == [g |-> -1, s |-> << >>]

\* t.replace(old, new)
Replace(t, old, new) == Sub(Lit(old), <<T(new)>>, t)

\* t.startswith(p), t.endswith(p)
StartsWith(t, p) == LitAt(t, 1, p, FALSE)
EndsWith(t, p) == Len(t) >= Len(p) /\ LitAt(t, Len(t) - Len(p) + 1, p, FALSE)

\* t.lstrip(), t.rstrip(), t.strip()
LStrip(t) == IF t = << >> THEN t ELSE Slice(t, RunLength(In(Space), t, 1) + 1, Len(t) + 1)
RStrip(t) ==
    IF t = << >> THEN t
    ELSE SubSeq(t, 1, CHOOSE p \in 0..Len(t) :
                         /\ p = 0 \/ t[p] \notin Space
                         /\ \A q \in (p + 1)..Len(t) : t[q] \in Space)
Strip(t) == LStrip(RStrip(t))

\* the pieces of t between the matches ms
Between(t, ms) ==
    [k \in 1..(Len(ms) + 1) |->
        Slice(t, IF k = 1 THEN 1 ELSE ms[k - 1].e,
                 IF k > Len(ms) THEN Len(t) + 1 ELSE ms[k].s)]

\* t.split(sep); ''.split(sep) is ['']
Split(t, sep) == IF t = << >> THEN <<t>> ELSE Between(t, Matches(Lit(sep), t))

\* sep.join(ls)
RECURSIVE Join(_, _)
Join(ls, sep) ==
    IF ls = << >> THEN << >>
    ELSE IF Len(ls) = 1 THEN ls[1]
    ELSE ls[1] \o sep \o Join(Tail(ls), sep)

\* str(n) for n >= 0
RECURSIVE Digits(_)
Digits(n) == IF n < 10 THEN <<Chr(48 + n)>> ELSE Digits(n \div 10) \o <<Chr(48 + (n % 10))>>

\* the value of one hexadecimal digit
DigitValue(c) ==
    CHOOSE v \in 0..15 : \/ (v < 10 /\ c = Chr(48 + v))
                         \/ (v >= 10 /\ c \in {Chr(87 + v), Chr(55 + v)})

\* the last code point, sys.maxunicode
MaxCodePoint == 1114111

RECURSIVE DigitsValue(_, _)
DigitsValue(ds, base) ==
    IF ds = << >> THEN 0
    ELSE DigitsValue(SubSeq(ds, 1, Len(ds) - 1), base) * base + DigitValue(ds[Len(ds)])

\* int(ds, base); a number of more than 7 digits is over the last code
\* point whatever its digits, and is given as MaxCodePoint + 1
IntOf(ds, base) ==
    LET sig == Slice(ds, RunLength(In({"0"}), ds, 1) + 1, Len(ds) + 1)
    IN IF Len(sig) > 7 THEN MaxCodePoint + 1 ELSE DigitsValue(sig, base)

\* the non-empty members of a sequence of texts
RECURSIVE NonEmpty(_)
NonEmpty(ls) ==
    IF ls = << >> THEN << >>
    ELSE (IF Head(ls) = << >> THEN << >> ELSE <<Head(ls)>>) \o NonEmpty(Tail(ls))

\* s * n
RECURSIVE Repeat(_, _)
Repeat(s, n) == IF n <= 0 THEN << >> ELSE s \o Repeat(s, n - 1)


(***************************************************************************)
(* State.                                                                  *)
(***************************************************************************)
VARIABLES
    pc,               \* where the modelled call stands
    input,            \* the argument of the call
    fillLen,          \* the number of characters FILL stands for in input
    scan_text,        \* remove_complex_templates: text, after the first pass
    i,                \* remove_complex_templates: i
    brace_stack,      \* remove_complex_templates: brace_stack
    result,           \* remove_complex_templates: result
    result_fill,      \* the number of characters FILL stands for in result
    iteration_count,  \* remove_complex_templates: iteration_count
    out,              \* the value returned
    out_fill,         \* the number of characters FILL stands for in out
    ret_path,         \* the return statement that ended the call
    fill_width,       \* the UTF-8 bytes of one letter of the run FILL stands for
    timeout_seconds,  \* wikitext_to_markdown: timeout_seconds
    elapsed,          \* the last reading of time.time() - start_time
    text,             \* wikitext_to_markdown: text
    text_fill,        \* the number of characters FILL stands for in text
    preserved_blocks, \* wikitext_to_markdown: preserved_blocks, in insertion order
    block_counter,    \* wikitext_to_markdown: block_counter
    stages,           \* the steps of the pipeline run so far, in order
    first_result,     \* in a call on the result of a first call: <<that result, the
                      \* number of characters FILL stands for in it>>; else << >>
    blankLen,         \* the number of newline characters NLRUN stands for in input
    table,            \* convert_wikitable: lines (before the empty lines of the run),
                      \* the number line_no of the line the loop is at, headers,
                      \* data_rows, current_row and markdown_rows
    out_blank,        \* the number of newline characters NLRUN stands for in out
    batch             \* parse_wikipedia_xml_fast: its variables, the database or the
                      \* output directory, and the history of the run

scanVars == <<scan_text, i, brace_stack, result, result_fill, iteration_count>>
pipeVars == <<first_result, timeout_seconds, elapsed, text, text_fill, preserved_blocks, block_counter,
              stages>>
vars == <<pc, input, fillLen, fill_width, scan_text, i, brace_stack, result, result_fill,
          iteration_count, out, out_fill, ret_path, timeout_seconds, elapsed, text,
          text_fill, preserved_blocks, block_counter, stages, first_result,
          blankLen, table, out_blank, batch>>

tableVars == <<blankLen, table, out_blank>>

\* convert_wikitable: the variables before the loop
NoTable ==
    [lines |-> << >>, line_no |-> 0, headers |-> << >>, data_rows |-> << >>,
     current_row |-> << >>, markdown_rows |-> << >>]

\* no table is being converted
TableIdle ==
    /\ blankLen = 0
    /\ table = NoTable
    /\ out_blank = 0

\* current_page: a key is absent, or holds a value
Absent == << >>
Holding(v) == <<v>>
Has(page, key) == page[key] # Absent
ValueOf(page, key) == page[key][1]

\* current_page = {}
EmptyPage == [title |-> Absent, text |-> Absent, id |-> Absent]

\* the variables of parse_wikipedia_xml_fast before the loop, the database
\* (or the output directory) as init_database leaves it, and the history of
\* the run: the results returned by process_article_fast and the exceptions
\* raised in its calls, the element of
\* the dump the line read is in, the first <id> line of the page, the
\* numbers of pages closed with the three fields and without, the last
\* store that succeeded for each page_id, and the page_ids whose last store
\* failed at the commit
BatchStart(db_conn) ==
    [db_conn |-> db_conn, in_page |-> FALSE, in_title |-> FALSE, in_text |-> FALSE,
     current_page |-> EmptyPage, current_content |-> << >>, line_count |-> 0,
     article_count |-> 0, redirect_count |-> 0, skipped_count |-> 0, error_count |-> 0,
     articles |-> {}, next_id |-> 1, files |-> {},
     results |-> << >>, exceptions |-> << >>, element |-> "", rank |-> 0, first_id |-> Absent, closed |-> 0, dropped |-> 0,
     last_store |-> {},
     unsettled |-> {}]

\* no dump is being read
BatchIdle == batch = BatchStart(FALSE)

\* len(t), for a text in which FILL stands for n characters
CharLen(t, n) ==
    IF t # << >> /\ t[Len(t)] = FILL THEN Len(t) - 1 + n ELSE Len(t)

(***************************************************************************)
(* remove_complex_templates                                                *)
(***************************************************************************)
LargeTextLimit == 1000000
max_nesting_depth == 50

OpenBraces == <<"{","{">>
CloseBraces == <<"}","}">>

\* r'\{\{([^}]*)\}\}' -> r'\1': the lazy substitution
LazyTemplateRe ==
    Cat(<<Lit(OpenBraces), Grp(1, Star(NotIn({"}"}))), Lit(CloseBraces)>>)
LazyStrip(t) == Sub(LazyTemplateRe, <<G(1)>>, t)

\* r'\{\{cite\s+[^}]*\|?\s*title\s*=\s*([^|}]+)[^}]*\}\}', re.IGNORECASE
CiteRe ==
    Cat(<<LitI(<<"{","{","c","i","t","e">>), Plus(In(Space)), Star(NotIn({"}"})),
          Opt(Lit(<<"|">>)), Star(In(Space)), LitI(<<"t","i","t","l","e">>), Star(In(Space)),
          Lit(<<"=">>), Star(In(Space)), Grp(1, Plus(NotIn({"|", "}"}))),
          Star(NotIn({"}"})), Lit(CloseBraces)>>)
\* r'*(Reference: \1)*'
CiteRepl == <<T(<<"*","(","R","e","f","e","r","e","n","c","e",":"," ">>), G(1), T(<<")","*">>)>>

\* r'\{\{quote\s*\|\s*([^|}]+)[^}]*\}\}', re.IGNORECASE
QuoteRe ==
    Cat(<<LitI(<<"{","{","q","u","o","t","e">>), Star(In(Space)), Lit(<<"|">>), Star(In(Space)),
          Grp(1, Plus(NotIn({"|", "}"}))), Star(NotIn({"}"})), Lit(CloseBraces)>>)
\* r'> \1'
QuoteRepl == <<T(<<">", " ">>), G(1)>>

\* r'\{\{main\s*\|\s*([^|}]+)[^}]*\}\}', re.IGNORECASE
MainRe ==
    Cat(<<LitI(<<"{","{","m","a","i","n">>), Star(In(Space)), Lit(<<"|">>), Star(In(Space)),
          Grp(1, Plus(NotIn({"|", "}"}))), Star(NotIn({"}"})), Lit(CloseBraces)>>)
\* r'*See main article: [\1](\1)*'
MainRepl == <<T(<<"*","S","e","e"," ","m","a","i","n"," ","a","r","t","i","c","l","e",":"," ","[">>), G(1), T(<<"]", "(">>), G(1), T(<<")", "*">>)>>

\* the first pass: the citation, quotation and main-article rewrites
FirstPass(t) ==
    Sub(MainRe, MainRepl, Sub(QuoteRe, QuoteRepl, Sub(CiteRe, CiteRepl, t)))

\* a budget of half the length
MaxIterations_Half(t, n) == CharLen(t, n) \div 2

\* max_iterations = len(text) * 2
MaxIterations(t, n) == CharLen(t, n) * 2

\* text[i:i+2] == two, with i < len(text) - 1
PairAt(t, n, idx, two) == idx < CharLen(t, n) - 1 /\ LitAt(t, idx + 1, two, FALSE)

\* the limit tested one entry late
DepthLimitReached_Late(stack) == Len(stack) > max_nesting_depth

\* len(brace_stack) >= max_nesting_depth
DepthLimitReached(stack) == Len(stack) >= max_nesting_depth

\* the skipped '{{' is not stepped over
SkipAdvance_Stuck(idx) == idx

\* the index advance of an iteration that skips an over-deep '{{'
SkipAdvance(idx) == idx + 2

\* the characters inside a template are copied as well
ScanStep_CopyInside(t, n, st) ==
    IF PairAt(t, n, st.i, OpenBraces)
    THEN IF DepthLimitReached(st.stack)
         THEN [st EXCEPT !.i = SkipAdvance(st.i), !.iter = st.iter + 1]
         ELSE [st EXCEPT !.stack = Append(st.stack, st.i), !.i = st.i + 2,
                         !.iter = st.iter + 1]
    ELSE IF PairAt(t, n, st.i, CloseBraces)
    THEN [st EXCEPT !.stack = IF st.stack # << >>
                              THEN SubSeq(st.stack, 1, Len(st.stack) - 1)
                              ELSE st.stack,
                    !.i = st.i + 2, !.iter = st.iter + 1]
    ELSE IF t[st.i + 1] = FILL
    THEN LET left == MaxIterations(t, n) - st.iter
             k == IF n < left THEN n ELSE left
         IN [st EXCEPT !.result = Append(st.result, FILL),
                       !.rfill = k,
                       !.i = st.i + k, !.iter = st.iter + k]
    ELSE [st EXCEPT !.result = Append(st.result, t[st.i + 1]),
                    !.i = st.i + 1, !.iter = st.iter + 1]

\* One iteration of the while loop, on the loop state
\* st = [i, stack, result, rfill, iter], for the text t whose FILL stands
\* for n characters.  The iterations over the run that FILL stands for are
\* taken together: as many as the iteration limit leaves.
ScanStep(t, n, st) ==
    IF PairAt(t, n, st.i, OpenBraces)
    THEN IF DepthLimitReached(st.stack)
         THEN [st EXCEPT !.i = SkipAdvance(st.i), !.iter = st.iter + 1]
         ELSE [st EXCEPT !.stack = Append(st.stack, st.i), !.i = st.i + 2,
                         !.iter = st.iter + 1]
    ELSE IF PairAt(t, n, st.i, CloseBraces)
    THEN [st EXCEPT !.stack = IF st.stack # << >>
                              THEN SubSeq(st.stack, 1, Len(st.stack) - 1)
                              ELSE st.stack,
                    !.i = st.i + 2, !.iter = st.iter + 1]
    ELSE IF t[st.i + 1] = FILL
    THEN LET left == MaxIterations(t, n) - st.iter
             k == IF n < left THEN n ELSE left
         IN [st EXCEPT !.result = IF st.stack = << >> THEN Append(st.result, FILL)
                                  ELSE st.result,
                       !.rfill = IF st.stack = << >> THEN k ELSE 0,
                       !.i = st.i + k, !.iter = st.iter + k]
    ELSE [st EXCEPT !.result = IF st.stack = << >> THEN Append(st.result, t[st.i + 1])
                               ELSE st.result,
                    !.i = st.i + 1, !.iter = st.iter + 1]

\* while i < len(text) and iteration_count < max_iterations
LoopCondition(t, n, st) == st.i < CharLen(t, n) /\ st.iter < MaxIterations(t, n)

ScanStart == [i |-> 0, stack |-> << >>, result |-> << >>, rfill |-> 0, iter |-> 0]

\* text[i:], when the loop stopped at index idx (inside the run FILL stands
\* for, the rest of the run)
Remaining(t, n, idx) ==
    IF idx < Len(t) THEN Slice(t, idx + 1, Len(t) + 1)
    ELSE IF idx < CharLen(t, n) THEN <<FILL>> ELSE << >>
RemainingFill(t, n, idx) ==
    IF idx < Len(t) THEN (IF t # << >> /\ t[Len(t)] = FILL THEN n ELSE 0)
    ELSE IF idx < CharLen(t, n) THEN CharLen(t, n) - idx ELSE 0

\* the limit taken for the length of the text
HitIterationLimit_AtLength(t, n, st) == st.iter >= CharLen(t, n)

\* if iteration_count >= max_iterations
HitIterationLimit(t, n, st) == st.iter >= MaxIterations(t, n)

\* what the function returns once the loop has ended: [text, fill]
ScanReturn(t, n, st) ==
    IF HitIterationLimit(t, n, st)
    THEN [text |-> LazyStrip(st.result \o Remaining(t, n, st.i)),
          fill |-> st.rfill + RemainingFill(t, n, st.i)]
    ELSE [text |-> st.result, fill |-> st.rfill]


\* remove_complex_templates(text), the loop run to its end
\* the loop state after the next 2^k iterations, or after those the loop
\* condition allows
RECURSIVE RunSteps(_, _, _, _)
RunSteps(t, n, st, k) ==
    IF ~LoopCondition(t, n, st) THEN st
    ELSE IF k = 0 THEN ScanStep(t, n, st)
    ELSE RunSteps(t, n, RunSteps(t, n, st, k - 1), k - 1)

\* the loop run to its end, sixteen iterations at a time
RECURSIVE RunLoop(_, _, _)
RunLoop(t, n, st) ==
    IF LoopCondition(t, n, st) THEN RunLoop(t, n, RunSteps(t, n, st, 4)) ELSE st

RemoveComplexTemplates(t, n) ==
    IF CharLen(t, n) > LargeTextLimit
    THEN [text |-> LazyStrip(t), fill |-> n]
    ELSE LET t1 == FirstPass(t)
         IN ScanReturn(t1, n, RunLoop(t1, n, ScanStart))

(***************************************************************************)
(* html.unescape (Step 1)                                                  *)
(***************************************************************************)
\* html.entities.html5, the names the documents of the model spell:
\* <<name, code point>>
Html5 == {
    <<<<"a","m","p">>, 38>>, <<<<"a","m","p",";">>, 38>>, <<<<"A","M","P">>, 38>>, <<<<"A","M","P",";">>, 38>>,
    <<<<"l","t">>, 60>>, <<<<"l","t",";">>, 60>>, <<<<"L","T">>, 60>>, <<<<"L","T",";">>, 60>>,
    <<<<"g","t">>, 62>>, <<<<"g","t",";">>, 62>>, <<<<"G","T">>, 62>>, <<<<"G","T",";">>, 62>>,
    <<<<"q","u","o","t">>, 34>>, <<<<"q","u","o","t",";">>, 34>>, <<<<"Q","U","O","T">>, 34>>, <<<<"Q","U","O","T",";">>, 34>>,
    <<<<"n","b","s","p">>, 160>>, <<<<"n","b","s","p",";">>, 160>>, <<<<"a","p","o","s",";">>, 39>>,
    <<<<"n","d","a","s","h",";">>, 8211>>, <<<<"m","d","a","s","h",";">>, 8212>>, <<<<"h","e","l","l","i","p",";">>, 8230>>,
    <<<<"l","s","q","u","o",";">>, 8216>>, <<<<"r","s","q","u","o",";">>, 8217>>, <<<<"l","d","q","u","o",";">>, 8220>>, <<<<"r","d","q","u","o",";">>, 8221>> }

Html5Char(name) == Chr((CHOOSE e \in Html5 : e[1] = name)[2])

\* html._invalid_charrefs: the replacements of the code points 128..159
InvalidCharrefs128 ==
    <<8364, 129, 8218, 402, 8222, 8230, 8224, 8225, 710, 8240, 352, 8249, 338, 141, 381, 143,
      144, 8216, 8217, 8220, 8221, 8226, 8211, 8212, 732, 8482, 353, 8250, 339, 157, 382, 376>>

\* html._invalid_codepoints
InvalidCodepoint(n) ==
    \/ n \in 1..8 \/ n = 11 \/ n \in 14..31 \/ n \in 127..159
    \/ n \in 64976..65007
    \/ (n % 65536) \in {65534, 65535}

\* html._replace_charref for a numeric reference to the code point n
NumericCharref(n) ==
    IF n = 0 THEN <<Chr(65533)>>
    ELSE IF n = 13 THEN <<Chr(13)>>
    ELSE IF n \in 128..159 THEN <<Chr(InvalidCharrefs128[n - 127])>>
    ELSE IF n \in 55296..57343 \/ n > MaxCodePoint THEN <<Chr(65533)>>
    ELSE IF InvalidCodepoint(n) THEN << >>
    ELSE <<Chr(n)>>

\* html._replace_charref
ReplaceCharref(t, m) ==
    LET s == Group(t, m, 1)
        Html5Names == {e[1] : e \in Html5}
        digits(from) == LET d == Slice(s, from, Len(s) + 1)
                        IN IF d[Len(d)] = ";" THEN SubSeq(d, 1, Len(d) - 1) ELSE d
    IN IF s[1] = "#"
       THEN IF s[2] \in {"x", "X"} THEN NumericCharref(IntOf(digits(3), 16))
            ELSE NumericCharref(IntOf(digits(2), 10))
       ELSE IF s \in Html5Names THEN <<Html5Char(s)>>
       ELSE IF \E x \in 2..(Len(s) - 1) : SubSeq(s, 1, x) \in Html5Names
       THEN LET x == CHOOSE x \in 2..(Len(s) - 1) :
                         /\ SubSeq(s, 1, x) \in Html5Names
                         /\ \A y \in (x + 1)..(Len(s) - 1) : SubSeq(s, 1, y) \notin Html5Names
            IN <<Html5Char(SubSeq(s, 1, x))>> \o Slice(s, x + 1, Len(s) + 1)
       ELSE <<"&">> \o s

\* html.unescape(t): _charref.sub(_replace_charref, t), with html._charref
\* r'&(#[0-9]+;?|#[xX][0-9a-fA-F]+;?|[^\t\n\f <&#;]{1,32};?)'
Unescape(t) ==
    LET charref ==
            Cat(<<Lit(<<"&">>),
                  Grp(1, Alt(<<Cat(<<Lit(<<"#">>), Plus(In(Digit)), Opt(Lit(<<";">>))>>),
                               Cat(<<Lit(<<"#">>), In({"x", "X"}), Plus(In(HexDigit)),
                                     Opt(Lit(<<";">>))>>),
                               Cat(<<Rep(NotIn({"\t", "\n", "\f", " ", "<", "&", "#", ";"}),
                                         1, 32, FALSE),
                                     Opt(Lit(<<";">>))>>)>>))>>)
        ms == Matches(charref, t)
    IN Splice(t, ms, [k \in 1..Len(ms) |-> ReplaceCharref(t, ms[k])])

(***************************************************************************)
(* The size guard and the timeout returns                                  *)
(***************************************************************************)
SizeGuardLimit == 2000000
SizeGuardCap == 10000
TimeoutCap == 5000

\* the guard set off by a document of exactly the limit
SizeGuardExceeded_AtLimit(t, n) == CharLen(t, n) >= SizeGuardLimit

\* len(wikitext) > 2000000
SizeGuardExceeded(t, n) == CharLen(t, n) > SizeGuardLimit

\* r'\{\{[^}]*\}\}'
SimpleTemplateRe == Cat(<<Lit(OpenBraces), Star(NotIn({"}"})), Lit(CloseBraces)>>)

\* the three removals of the size guard:
\* r'\{\{[^}]*\}\}', then r'<[^>]*>', then r'\[\[[^]]*\]\]'
SimpleText(t) ==
    SubAll(<< <<SimpleTemplateRe, << >> >>,
              <<Cat(<<Lit(<<"<">>), Star(NotIn({">"})), Lit(<<">">>)>>), << >> >>,
              <<Cat(<<Lit(<<"[","[">>), Star(NotIn({"]"})), Lit(<<"]","]">>)>>), << >> >> >>, t)

\* t[:cap], for a text whose FILL stands for n characters: [text, fill]
Truncate(t, n, cap) ==
    LET body == IF t # << >> /\ t[Len(t)] = FILL THEN Len(t) - 1 ELSE Len(t)
    IN IF CharLen(t, n) <= cap THEN [text |-> t, fill |-> n]
       ELSE IF body >= cap THEN [text |-> SubSeq(t, 1, cap), fill |-> 0]
       ELSE [text |-> t, fill |-> cap - body]

\* the deadline tripped one reading early
TimedOut_AtDeadline(reading, limit) == reading >= limit

\* check_timeout: time.time() - start_time > timeout_seconds
TimedOut(reading, limit) == reading > limit

(***************************************************************************)
(* Preservation (Step 2) and comment removal (Step 3)                      *)
(***************************************************************************)
\* f"__PRESERVED_{kind}_{block_counter}__"
Key(kind, n) == <<"_","_","P","R","E","S","E","R","V","E","D","_">> \o kind \o <<"_">> \o Digits(n) \o <<"_","_">>

\* r'<tag[^>]*>(.*?)</tag>', re.DOTALL | re.IGNORECASE
TagPairRe(tag) ==
    Cat(<<LitI(<<"<">> \o tag), Star(NotIn({">"})), Lit(<<">">>), Grp(1, LazyStar(AnyChar)),
          LitI(<<"<","/">> \o tag \o <<">">>)>>)

\* r'<nowiki>(.*?)</nowiki>', re.DOTALL | re.IGNORECASE
NowikiRe == Cat(<<LitI(<<"<","n","o","w","i","k","i",">">>), Grp(1, LazyStar(AnyChar)), LitI(<<"<","/","n","o","w","i","k","i",">">>)>>)

\* a fenced block: f"\n```{lang}\n{content}\n```\n"
Fenced(lang, content) == <<"\n","U+96","U+96","U+96">> \o lang \o <<"\n">> \o content \o <<"\n","U+96","U+96","U+96","\n">>

MathIsBlock_AtLimit(raw, full) ==
    \/ "\n" \in {raw[n] : n \in 1..Len(raw)}
    \/ Len(Strip(raw)) >= 50
    \/ Contains(full, <<"d","i","s","p","l","a","y","=","\"","b","l","o","c","k","\"">>)
    \/ Contains(full, <<"d","i","s","p","l","a","y","=","b","l","o","c","k">>)

\* preserve_math: '\n' in math_content_raw or len(math_content) > 50 or is_display_block
MathIsBlock(raw, full) ==
    \/ "\n" \in {raw[n] : n \in 1..Len(raw)}
    \/ Len(Strip(raw)) > 50
    \/ Contains(full, <<"d","i","s","p","l","a","y","=","\"","b","l","o","c","k","\"">>)
    \/ Contains(full, <<"d","i","s","p","l","a","y","=","b","l","o","c","k">>)

\* preserve_math: the stored rendering
MathValue(t, m) ==
    LET raw == Group(t, m, 1)
        full == Group0(t, m)
    IN IF Contains(LowerStr(full), <<"c","h","e","m">>) THEN Fenced(<<"c","h","e","m","i","s","t","r","y">>, Strip(raw))
       ELSE IF MathIsBlock(raw, full) THEN Fenced(<<"m","a","t","h">>, Strip(raw))
       ELSE <<"$">> \o Strip(raw) \o <<"$">>

\* preserve_syntax: lang_map
lang_map == {
    <<<<"c","+","+">>, <<"c","p","p">>>>, <<<<"c","#">>, <<"c","s","h","a","r","p">>>>, <<<<"j","s">>, <<"j","a","v","a","s","c","r","i","p","t">>>>, <<<<"p","y">>, <<"p","y","t","h","o","n">>>>,
    <<<<"r","b">>, <<"r","u","b","y">>>>, <<<<"s","h">>, <<"b","a","s","h">>>>, <<<<"s","h","e","l","l">>, <<"b","a","s","h">>>>, <<<<"c","o","n","s","o","l","e">>, <<"b","a","s","h">>>>,
    <<<<"m","y","s","q","l">>, <<"s","q","l">>>>, <<<<"p","o","s","t","g","r","e","s","q","l">>, <<"s","q","l">>>>, <<<<"h","t","m","l","5">>, <<"h","t","m","l">>>>, <<<<"x","h","t","m","l">>, <<"h","t","m","l">>>>,
    <<<<"x","m","l">>, <<"x","m","l">>>>, <<<<"y","a","m","l">>, <<"y","a","m","l">>>>, <<<<"y","m","l">>, <<"y","a","m","l">>>> }

\* preserve_syntax: lang_patterns,
\* r'lang=["\']?([^"\'>\s]+)["\']?', r'language=["\']?([^"\'>\s]+)["\']?' and
\* r'<(?:syntaxhighlight|source)\s+([^>\s]+)(?:\s|>)'
lang_patterns ==
    LET LangAttrRe(name) ==
            Cat(<<LitI(name \o <<"=">>), Opt(In({"\"", "'"})),
                  Grp(1, Plus(NotIn({"\"", "'", ">"} \cup Space))), Opt(In({"\"", "'"}))>>)
    IN <<LangAttrRe(<<"l","a","n","g">>), LangAttrRe(<<"l","a","n","g","u","a","g","e">>),
         Cat(<<Lit(<<"<">>), Alt(<<LitI(<<"s","y","n","t","a","x","h","i","g","h","l","i","g","h","t">>), LitI(<<"s","o","u","r","c","e">>)>>), Plus(In(Space)),
               Grp(1, Plus(NotIn({">"} \cup Space))), Alt(<<In(Space), Lit(<<">">>)>>)>>)>>

\* preserve_syntax: the lower-cased group 1 of the first of the patterns that
\* re.search finds in full_tag (re.IGNORECASE), 'text' if none does
RECURSIVE FirstLang(_, _)
FirstLang(patterns, full_tag) ==
    IF patterns = << >> THEN <<"t","e","x","t">>
    ELSE IF Search(Head(patterns), full_tag).ok
    THEN LowerStr(Group(full_tag, Search(Head(patterns), full_tag), 1))
    ELSE FirstLang(Tail(patterns), full_tag)

\* lang_map.get(lang, lang)
MappedLang(lang) ==
    IF \E e \in lang_map : e[1] = lang THEN (CHOOSE e \in lang_map : e[1] = lang)[2] ELSE lang

\* preserve_syntax: the language of the block
SyntaxLang(full_tag) == MappedLang(FirstLang(lang_patterns, full_tag))

\* the kinds of the callbacks that store a block: preserve_nowiki,
\* preserve_math, preserve_chem, preserve_pre, preserve_syntax
StoredKinds == {<<"N","O","W","I","K","I">>, <<"M","A","T","H">>, <<"C","H","E","M">>, <<"P","R","E">>, <<"S","Y","N","T","A","X">>}

\* what the callback of a re.sub of Step 2 makes of the match m: the value a
\* preserve_<kind> callback stores, or the text that replaces the match
BlockValue(kind, t, m) ==
    CASE kind = <<"N","O","W","I","K","I">> -> Group(t, m, 1)
      [] kind = <<"M","A","T","H">> -> MathValue(t, m)
      [] kind = <<"C","H","E","M">> -> Fenced(<<"c","h","e","m","i","s","t","r","y">>, Strip(Group(t, m, 1)))
      [] kind = <<"P","R","E">> -> Fenced(<< >>, Strip(Group(t, m, 1)))
      [] kind = <<"S","Y","N","T","A","X">> -> Fenced(SyntaxLang(Group0(t, m)), Strip(Group(t, m, 1)))
      \* '' for <nowiki/>
      [] kind = <<"d","r","o","p">> -> << >>
      \* lambda m: f"`{m.group(1)}`"
      [] kind = <<"c","o","d","e">> -> <<"U+96">> \o Group(t, m, 1) \o <<"U+96">>
      \* lambda m: f"\n```{m.group(1)}\n{m.group(2).strip()}\n```\n"
      [] kind = <<"c","o","d","e","_","l","a","n","g">> -> Fenced(Group(t, m, 1), Strip(Group(t, m, 2)))

\* the values of the callback for the matches ms
BlockValues(kind, t, ms) == [k \in 1..Len(ms) |-> BlockValue(kind, t, ms[k])]

\* text = re.sub(r, callback, text) on st = [text, blocks, counter], for the
\* matches ms of r: a preserve_<kind> callback stores its value under a new
\* key and replaces the match by the key; any other replaces it by its value
PreserveAt(kind, st, ms) ==
    IF kind \in StoredKinds
    THEN [text |-> Splice(st.text, ms, [k \in 1..Len(ms) |-> Key(kind, st.counter + k - 1)]),
          blocks |-> st.blocks \o
                     [k \in 1..Len(ms) |-> [key |-> Key(kind, st.counter + k - 1),
                                            value |-> BlockValue(kind, st.text, ms[k])]],
          counter |-> st.counter + Len(ms)]
    ELSE [st EXCEPT !.text = Splice(st.text, ms, BlockValues(kind, st.text, ms))]

Preserve(r, kind, st) == PreserveAt(kind, st, Matches(r, st.text))

\* the re.sub calls of Step 2, in order: <<pattern, kind of callback>>
PreserveRules == <<
    <<NowikiRe, <<"N","O","W","I","K","I">>>>,
    \* r'<nowiki\s*/>', re.IGNORECASE
    <<Cat(<<LitI(<<"<","n","o","w","i","k","i">>), Star(In(Space)), Lit(<<"/",">">>)>>), <<"d","r","o","p">>>>,
    <<TagPairRe(<<"m","a","t","h">>), <<"M","A","T","H">>>>,
    \* r'<math\s+chem[^>]*>(.*?)</math>', re.DOTALL | re.IGNORECASE
    <<Cat(<<LitI(<<"<","m","a","t","h">>), Plus(In(Space)), LitI(<<"c","h","e","m">>), Star(NotIn({">"})), Lit(<<">">>),
            Grp(1, LazyStar(AnyChar)), LitI(<<"<","/","m","a","t","h",">">>)>>), <<"M","A","T","H">>>>,
    <<TagPairRe(<<"c","h","e","m">>), <<"C","H","E","M">>>>,
    <<TagPairRe(<<"c","e">>), <<"C","H","E","M">>>>,
    <<TagPairRe(<<"p","r","e">>), <<"P","R","E">>>>,
    \* r'<code[^>]*>(.*?)</code>', re.IGNORECASE
    <<Cat(<<LitI(<<"<","c","o","d","e">>), Star(NotIn({">"})), Lit(<<">">>), Grp(1, LazyStar(Dot)),
            LitI(<<"<","/","c","o","d","e",">">>)>>), <<"c","o","d","e">>>>,
    <<TagPairRe(<<"s","y","n","t","a","x","h","i","g","h","l","i","g","h","t">>), <<"S","Y","N","T","A","X">>>>,
    <<TagPairRe(<<"s","o","u","r","c","e">>), <<"S","Y","N","T","A","X">>>>,
    \* r'<code\s+lang=["\']?([^"\'>\s]+)["\']?[^>]*>(.*?)</code>',
    \* re.DOTALL | re.IGNORECASE
    <<Cat(<<LitI(<<"<","c","o","d","e">>), Plus(In(Space)), LitI(<<"l","a","n","g","=">>), Opt(In({"\"", "'"})),
            Grp(1, Plus(NotIn({"\"", "'", ">"} \cup Space))), Opt(In({"\"", "'"})),
            Star(NotIn({">"})), Lit(<<">">>), Grp(2, LazyStar(AnyChar)), LitI(<<"<","/","c","o","d","e",">">>)>>),
      <<"c","o","d","e","_","l","a","n","g">>>> >>

\* the preservations of the rules, in order: the first half of the rules,
\* then the second half on what the first gives.
\* (No pattern matches in the empty text.)
RECURSIVE PreserveEach(_, _)
PreserveEach(rules, st) ==
    IF rules = << >> \/ st.text = << >> THEN st
    ELSE IF Len(rules) = 1 THEN Preserve(rules[1][1], rules[1][2], st)
    ELSE PreserveEach(SubSeq(rules, Len(rules) \div 2 + 1, Len(rules)),
                      PreserveEach(SubSeq(rules, 1, Len(rules) \div 2), st))

\* Step 2: [text, blocks, counter] after the preservation of the text t
PreserveBlocks(t) == PreserveEach(PreserveRules, [text |-> t, blocks |-> << >>, counter |-> 0])

\* Step 3: r'<!--.*?-->', re.DOTALL
StripComments(t) == Sub(Cat(<<Lit(<<"<","!","-","-">>), LazyStar(AnyChar), Lit(<<"-","-",">">>)>>), << >>, t)

(***************************************************************************)
(* Tables (Step 5)                                                         *)
(***************************************************************************)
TableCharLimit == 50000
TableLineLimit == 500

\* re.sub(r'attr="[^"]*"', '', t, flags=re.IGNORECASE) for each attr of names
RemoveAttrs(names, t) ==
    SubAll([k \in 1..Len(names) |->
               <<Cat(<<LitI(names[k] \o <<"=","\"">>), Star(NotIn({"\""})), Lit(<<"\"">>)>>), << >> >>], t)

\* r"'''(.*?)'''" and r"''(.*?)''", with and without re.DOTALL
QuotedRe(q, any) == Cat(<<Lit(q), Grp(1, LazyStar(any)), Lit(q)>>)
PipedLinkRe_Marked ==
    Cat(<<Lit(<<"[","[">>), Grp(1, Plus(NotIn({"|", "]"}))), Lit(<<"#","|">>), Grp(2, Plus(NotIn({"]"}))),
          Lit(<<"]","]">>)>>)

\* r'\[\[([^|\]]+)\|([^\]]+)\]\]'
PipedLinkRe ==
    Cat(<<Lit(<<"[","[">>), Grp(1, Plus(NotIn({"|", "]"}))), Lit(<<"|">>), Grp(2, Plus(NotIn({"]"}))),
          Lit(<<"]","]">>)>>)
\* r'\[\[([^\]]+)\]\]'
PlainLinkRe == Cat(<<Lit(<<"[","[">>), Grp(1, Plus(NotIn({"]"}))), Lit(<<"]","]">>)>>)
\* r'[\2](\1)', r'[\1](\1)'
PipedLinkRepl == <<T(<<"[">>), G(2), T(<<"]","(">>), G(1), T(<<")">>)>>
PlainLinkRepl == <<T(<<"[">>), G(1), T(<<"]","(">>), G(1), T(<<")">>)>>
Wrap(mark) == <<T(mark), G(1), T(mark)>>

\* clean_table_cell: '|'.join(parts[1:]) if len(parts) > 1 else content
CellContent(content, parts) ==
    IF Len(parts) > 1 THEN Join(Tail(parts), <<"|">>) ELSE content

\* clean_table_cell
clean_table_cell(content) ==
    IF content = << >> THEN << >>
    ELSE Strip(SubAll(<< <<QuotedRe(<<"'","'","'">>, Dot), Wrap(<<"*","*">>)>>,
                         <<QuotedRe(<<"'","'">>, Dot), Wrap(<<"*">>)>>,
                         <<PipedLinkRe, PipedLinkRepl>>,
                         <<PlainLinkRe, PlainLinkRepl>> >>,
                      RemoveAttrs(<<<<"s","c","o","p","e">>, <<"r","o","w","s","p","a","n">>, <<"c","o","l","s","p","a","n">>, <<"s","t","y","l","e">>, <<"c","l","a","s","s">>, <<"a","l","i","g","n">>,
                                    <<"v","a","l","i","g","n">>, <<"w","i","d","t","h">>, <<"h","e","i","g","h","t">>>>,
                                  CellContent(content, Split(content, <<"|">>)))))

\* convert_wikitable: the lazy textual cleanup
LazyTable(content) ==
    SubAll(<< <<Lit(<<"|","|">>), <<T(<<" ","|"," ">>)>> >>,
              <<Cat(<<BolM, Lit(<<"|">>)>>), << >> >>,
              <<Cat(<<Lit(<<"|","-">>), Star(In(Space))>>), <<T(<<"\n">>)>> >>,
              <<Cat(<<BolM, Lit(<<"!">>), Star(In(Space))>>), <<T(<<"*","*">>)>> >> >>,
           LazyStrip(content))

\* convert_wikitable: the cleaned cells of a header or data line, from the
\* text after its first character
CleanCells(content, sep) ==
    IF Contains(content, sep)
    THEN [k \in 1..Len(Split(content, sep)) |->
             Strip(clean_table_cell(Split(content, sep)[k]))]
    ELSE <<Strip(clean_table_cell(content))>>

\* convert_wikitable: the body of the loop for the stripped line, on
\* st = [headers, data_rows, current_row]
TableLine(line, st) ==
    IF line = << >> \/ StartsWith(line, <<"{","|">>) \/ StartsWith(line, <<"|","}">>) THEN st
    ELSE IF StartsWith(line, <<"|","-">>)
    THEN [st EXCEPT !.data_rows = IF st.current_row # << >>
                                  THEN Append(st.data_rows, st.current_row)
                                  ELSE st.data_rows,
                    !.current_row = << >>]
    ELSE IF StartsWith(line, <<"!">>)
    THEN [st EXCEPT !.headers = st.headers \o NonEmpty(CleanCells(Strip(Tail(line)), <<"!","!">>))]
    ELSE IF StartsWith(line, <<"|">>)
    THEN [st EXCEPT !.current_row = st.current_row \o CleanCells(Strip(Tail(line)), <<"|","|">>)]
    ELSE st

\* convert_wikitable: the loop over the lines (a state is a record of three
\* fields: the test of its domain has it worked out before the next line)
RECURSIVE TableLines(_, _)
TableLines(lines, st) ==
    IF lines = << >> \/ DOMAIN st = {} THEN st
    ELSE TableLines(Tail(lines), TableLine(Strip(Head(lines)), st))

\* '| ' + ' | '.join(cells) + ' |'
TableRow(cells) == <<"|"," ">> \o Join(cells, <<" ","|"," ">>) \o <<" ","|">>

FitRow_NoPad(row, n) == SubSeq(row, 1, IF Len(row) < n THEN Len(row) ELSE n)

\* a row padded with '' or cut to n cells
FitRow(row, n) == [k \in 1..n |-> IF k <= Len(row) THEN row[k] ELSE << >>]

Max(S) == CHOOSE x \in S : \A y \in S : y <= x

\* convert_wikitable: the table built from the headers and the data rows
MarkdownRows(headers, data_rows) ==
    IF headers # << >>
    THEN <<TableRow(headers), TableRow([k \in 1..Len(headers) |-> <<"-","-","-">>])>>
             \o [k \in 1..Len(data_rows) |-> TableRow(FitRow(data_rows[k], Len(headers)))]
    ELSE IF data_rows # << >>
    THEN LET max_cols == Max({Len(data_rows[k]) : k \in 1..Len(data_rows)})
         IN IF max_cols > 0
            THEN <<TableRow([k \in 1..max_cols |-> <<"C","o","l"," ">> \o Digits(k)]),
                   TableRow([k \in 1..max_cols |-> <<"-","-","-">>])>>
                     \o [k \in 1..Len(data_rows) |-> TableRow(FitRow(data_rows[k], max_cols))]
            ELSE << >>
    ELSE << >>

\* '\n' + '\n'.join(markdown_rows) + '\n' if markdown_rows else ''
TableText(markdown_rows) ==
    IF markdown_rows # << >> THEN <<"\n">> \o Join(markdown_rows, <<"\n">>) \o <<"\n">> ELSE << >>

\* convert_wikitable: after the loop, with the final row added if it exists
TableOf(st) ==
    TableText(MarkdownRows(st.headers,
                           IF st.current_row # << >>
                           THEN Append(st.data_rows, st.current_row) ELSE st.data_rows))

\* convert_wikitable: the full structural parse of the lines
StructuredTable(lines) ==
    TableOf(TableLines(lines, [headers |-> << >>, data_rows |-> << >>, current_row |-> << >>]))

\* convert_wikitable, for a match whose group 1 is table_content, with
\* lines = table_content.split('\n')
TableMarkdown(table_content, lines) ==
    IF Len(table_content) > TableCharLimit
    THEN <<"\n">> \o LazyTable(table_content) \o <<"\n">>
    ELSE IF Len(lines) > TableLineLimit
    THEN <<"\n">> \o LazyTable(Join(SubSeq(lines, 1, TableLineLimit), <<"\n">>))
             \o <<"\n",".",".","."," ","(","t","a","b","l","e"," ","c","o","n","t","i","n","u","e","s",")","\n">>
    ELSE StructuredTable(lines)

convert_wikitable(table_content) == TableMarkdown(table_content, Split(table_content, <<"\n">>))

\* re.sub(r'\{\|(.*?)\|\}', convert_wikitable, t, flags=re.DOTALL), for the
\* matches ms of the pattern
ConvertEach(t, ms) ==
    Splice(t, ms, [k \in 1..Len(ms) |-> convert_wikitable(Group(t, ms[k], 1))])

\* the line is dropped as a table markup artifact (n: the characters FILL
\* stands for)
IsTableArtifact(stripped_line, n) ==
    /\ StartsWith(stripped_line, <<"|">>)
    /\ \/ Contains(stripped_line, <<"s","c","o","p","e","=">>)
       \/ Contains(stripped_line, <<"r","o","w","s","p","a","n","=">>)
       \/ Contains(stripped_line, <<"c","o","l","s","p","a","n","=">>)
    /\ CharLen(Sub(In({"|", "-"} \cup Space), << >>, stripped_line), n) < 10

RECURSIVE KeepLines(_, _)
KeepLines(lines, n) ==
    IF lines = << >> THEN << >>
    ELSE (IF IsTableArtifact(Strip(Head(lines)), n) THEN << >> ELSE <<Head(lines)>>)
             \o KeepLines(Tail(lines), n)

\* Step 5
ConvertTables(t, n) ==
    Join(KeepLines(Split(RemoveAttrs(<<<<"s","c","o","p","e">>, <<"r","o","w","s","p","a","n">>, <<"c","o","l","s","p","a","n">>>>,
                                     ConvertEach(t, Matches(Cat(<<Lit(<<"{","|">>),
                                                                  Grp(1, LazyStar(AnyChar)),
                                                                  Lit(<<"|","}">>)>>), t))),
                         <<"\n">>), n), <<"\n">>)

(***************************************************************************)
(* The inline chain (Steps 6 to 12)                                        *)
(***************************************************************************)
\* Step 6
RemoveMarkup(t) ==
    SubAll(<<
        \* r'\[\[(?:File|Image|Media):[^\]]*\]\]', re.IGNORECASE
        <<Cat(<<Lit(<<"[","[">>), Alt(<<LitI(<<"F","i","l","e">>), LitI(<<"I","m","a","g","e">>), LitI(<<"M","e","d","i","a">>)>>), Lit(<<":">>),
                Star(NotIn({"]"})), Lit(<<"]","]">>)>>), << >> >>,
        \* r'\[\[Category:[^\]]*\]\]', re.IGNORECASE
        <<Cat(<<Lit(<<"[","[">>), LitI(<<"C","a","t","e","g","o","r","y",":">>), Star(NotIn({"]"})), Lit(<<"]","]">>)>>), << >> >>,
        \* r'\[\[[a-z]{2,3}(-[a-z]+)?:[^\]]*\]\]'
        <<Cat(<<Lit(<<"[","[">>), Rep(In(Lower), 2, 3, FALSE),
                Opt(Grp(1, Cat(<<Lit(<<"-">>), Plus(In(Lower))>>))), Lit(<<":">>),
                Star(NotIn({"]"})), Lit(<<"]","]">>)>>), << >> >> >>, t)

\* Step 7
ConvertFormatting(t) ==
    SubAll(<< <<QuotedRe(<<"'","'","'","'","'">>, AnyChar), Wrap(<<"*","*","*">>)>>,
              <<QuotedRe(<<"'","'","'">>, AnyChar), Wrap(<<"*","*">>)>>,
              <<QuotedRe(<<"'","'">>, AnyChar), Wrap(<<"*">>)>> >>, t)

\* Step 8
ConvertSizeTags(t) ==
    SubAll(<< <<TagPairRe(<<"s","m","a","l","l">>), <<G(1)>> >>,
              <<TagPairRe(<<"b","i","g">>), Wrap(<<"*","*">>)>>,
              <<TagPairRe(<<"s","u","b">>), Wrap(<<"_">>)>>,
              <<TagPairRe(<<"s","u","p">>), <<T(<<"^","(">>), G(1), T(<<")">>)>> >> >>, t)

\* r'^(\*{1,})\s+(.+)$', r'^(#{1,})\s+(.+)$', r'^(#{1,}\*+)\s+(.+)$'
ListRe(prefix) ==
    Cat(<<Bol, Grp(1, prefix), Plus(In(Space)), Grp(2, Plus(Dot)), Eol>>)

ListItem_Flat(level, marker, content) ==
    IF content = << >> THEN << >>
    ELSE <<marker \o content>>

\* '  ' * level + marker + content, or nothing for empty content
ListItem(level, marker, content) ==
    IF content = << >> THEN << >>
    ELSE <<Repeat(<<" "," ">>, level) \o marker \o content>>

\* Step 9: the lines that one line of the text becomes
ConvertListLine(line) ==
    LET \* r'^;\s*(.*?)(?::\s*(.*))?$'
        TermRe ==
            Cat(<<Bol, Lit(<<";">>), Star(In(Space)), Grp(1, LazyStar(Dot)),
                  Opt(Cat(<<Lit(<<":">>), Star(In(Space)), Grp(2, Star(Dot))>>)), Eol>>)
        \* r'^:\s*(.+)$'
        IndentRe == Cat(<<Bol, Lit(<<":">>), Star(In(Space)), Grp(1, Plus(Dot)), Eol>>)
        stripped == LStrip(line)
        star == MatchAt(ListRe(Plus(In({"*"}))), stripped, 1)
        hash == MatchAt(ListRe(Plus(In({"#"}))), stripped, 1)
        mixed == MatchAt(ListRe(Cat(<<Plus(In({"#"})), Plus(In({"*"}))>>)), stripped, 1)
        term == MatchAt(TermRe, stripped, 1)
        indent == MatchAt(IndentRe, stripped, 1)
    IN IF star.ok
       THEN ListItem(Len(Group(stripped, star, 1)) - 1, <<"-"," ">>, Strip(Group(stripped, star, 2)))
       ELSE IF hash.ok
       THEN ListItem(Len(Group(stripped, hash, 1)) - 1, <<"1","."," ">>, Strip(Group(stripped, hash, 2)))
       ELSE IF mixed.ok
       THEN ListItem(Len(Group(stripped, mixed, 1)) - 1, <<"-"," ">>, Strip(Group(stripped, mixed, 2)))
       ELSE IF term.ok
       THEN LET t == Strip(Group(stripped, term, 1))
                definition == Strip(Group(stripped, term, 2))
            IN IF t = << >> THEN << >>
               ELSE <<IF ~StartsWith(t, <<"*","*">>) /\ ~EndsWith(t, <<"*","*">>)
                      THEN <<"*","*">> \o t \o <<"*","*">> ELSE t>>
                    \o (IF definition # << >> THEN <<<<":"," ">> \o definition>> ELSE << >>)
       ELSE IF indent.ok
       THEN LET content == Strip(Group(stripped, indent, 1))
            IN IF content = << >> THEN << >> ELSE <<<<":"," ">> \o content>>
       ELSE <<line>>

\* the lines that the lines become, in order
ConvertListLines(lines) == Flatten([k \in 1..Len(lines) |-> ConvertListLine(lines[k])])

\* Step 9
ConvertLists(t) == Join(ConvertListLines(Split(t, <<"\n">>)), <<"\n">>)

\* r'^======\s*(.*?)\s*======\s*$' (re.MULTILINE) and its like, for a
\* heading of the given level
HeadingRe(marks) ==
    Cat(<<BolM, Lit(marks), Star(In(Space)), Grp(1, LazyStar(Dot)), Star(In(Space)),
          Lit(marks), Star(In(Space)), EolM>>)

\* r'###### \1' and its like
HeadingRepl(level) == <<T(Repeat(<<"#">>, level) \o <<" ">>), G(1)>>

\* Step 10: the headings of level 6 first, those of level 2 last
ConvertHeadings(t) ==
    SubAll([k \in 1..5 |-> <<HeadingRe(Repeat(<<"=">>, 7 - k)), HeadingRepl(7 - k)>>], t)

\* r'https?://[^\s\]]+' and r'ftp://[^\s\]]+'
UrlRe(scheme) == Cat(<<scheme, Lit(<<":","/","/">>), Plus(NotIn({"]"} \cup Space))>>)
\* r'\[(https?://[^\s\]]+)\s+([^\]]+)\]' and the same for ftp
ExternalTextLinkRe(scheme) ==
    Cat(<<Lit(<<"[">>), Grp(1, UrlRe(scheme)), Plus(In(Space)), Grp(2, Plus(NotIn({"]"}))),
          Lit(<<"]">>)>>)
\* r'\[(https?://[^\s\]]+)\]' and the same for ftp
ExternalLinkRe(scheme) == Cat(<<Lit(<<"[">>), Grp(1, UrlRe(scheme)), Lit(<<"]">>)>>)
\* r'[\3](https://\1.wikipedia.org/wiki/\2)' and
\* r'[\2](https://\1.wikipedia.org/wiki/\2)'
InterwikiRepl(shown) ==
    <<T(<<"[">>), G(shown), T(<<"]","(","h","t","t","p","s",":","/","/">>), G(1), T(<<".","w","i","k","i","p","e","d","i","a",".","o","r","g","/","w","i","k","i","/">>), G(2), T(<<")">>)>>

\* Step 11: the patterns and their replacements, in order
LinkRules ==
    <<
        \* r'\[\[([^|\]#]+)#([^|\]]+)\|([^\]]+)\]\]', r'[\3](\1#\2)'
        <<Cat(<<Lit(<<"[","[">>), Grp(1, Plus(NotIn({"|", "]", "#"}))), Lit(<<"#">>),
                Grp(2, Plus(NotIn({"|", "]"}))), Lit(<<"|">>), Grp(3, Plus(NotIn({"]"}))),
                Lit(<<"]","]">>)>>),
          <<T(<<"[">>), G(3), T(<<"]","(">>), G(1), T(<<"#">>), G(2), T(<<")">>)>> >>,
        <<PipedLinkRe, PipedLinkRepl>>,
        \* r'\[\[([^|\]#]+)#([^\]]+)\]\]', r'[\1#\2](\1#\2)'
        <<Cat(<<Lit(<<"[","[">>), Grp(1, Plus(NotIn({"|", "]", "#"}))), Lit(<<"#">>),
                Grp(2, Plus(NotIn({"]"}))), Lit(<<"]","]">>)>>),
          <<T(<<"[">>), G(1), T(<<"#">>), G(2), T(<<"]","(">>), G(1), T(<<"#">>), G(2), T(<<")">>)>> >>,
        <<PlainLinkRe, PlainLinkRepl>>,
        <<ExternalTextLinkRe(Cat(<<Lit(<<"h","t","t","p">>), Opt(Lit(<<"s">>))>>)), PipedLinkRepl>>,
        <<ExternalTextLinkRe(Lit(<<"f","t","p">>)), PipedLinkRepl>>,
        <<ExternalLinkRe(Cat(<<Lit(<<"h","t","t","p">>), Opt(Lit(<<"s">>))>>)), PlainLinkRepl>>,
        <<ExternalLinkRe(Lit(<<"f","t","p">>)), PlainLinkRepl>>,
        \* r'(?<!\[|\()\bhttps?://[^\s\]<>\)]+(?!\]|\))', r'[\g<0>](\g<0>)'
        <<Cat(<<NegBehind(In({"[", "("})), WordB, Lit(<<"h","t","t","p">>), Opt(Lit(<<"s">>)), Lit(<<":","/","/">>),
                Plus(NotIn({"]", "<", ">", ")"} \cup Space)), NegAhead(In({"]", ")"}))>>),
          <<T(<<"[">>), G0, T(<<"]","(">>), G0, T(<<")">>)>> >>,
        \* r'\[\[([a-z]{2,3}):([^|\]]+)\|([^\]]+)\]\]'
        <<Cat(<<Lit(<<"[","[">>), Grp(1, Rep(In(Lower), 2, 3, FALSE)), Lit(<<":">>),
                Grp(2, Plus(NotIn({"|", "]"}))), Lit(<<"|">>), Grp(3, Plus(NotIn({"]"}))),
                Lit(<<"]","]">>)>>), InterwikiRepl(3)>>,
        \* r'\[\[([a-z]{2,3}):([^\]]+)\]\]'
        <<Cat(<<Lit(<<"[","[">>), Grp(1, Rep(In(Lower), 2, 3, FALSE)), Lit(<<":">>),
                Grp(2, Plus(NotIn({"]"}))), Lit(<<"]","]">>)>>), InterwikiRepl(2)>> >>

\* Step 11
ConvertLinks(t) == SubAll(LinkRules, t)

\* Step 12: r'<ref[^>]*>.*?</ref>' (re.DOTALL), r'<ref[^>]*/?>', r'</ref>',
\* r'<ref>', all re.IGNORECASE
RemoveRefs(t) ==
    SubAll(<< <<Cat(<<LitI(<<"<","r","e","f">>), Star(NotIn({">"})), Lit(<<">">>), LazyStar(AnyChar),
                      LitI(<<"<","/","r","e","f",">">>)>>), << >> >>,
              <<Cat(<<LitI(<<"<","r","e","f">>), Star(NotIn({">"})), Opt(Lit(<<"/">>)), Lit(<<">">>)>>), << >> >>,
              <<LitI(<<"<","/","r","e","f",">">>), << >> >>,
              <<LitI(<<"<","r","e","f",">">>), << >> >> >>, t)

(***************************************************************************)
(* Entities (Step 13), HTML tags (Step 14), cleanup (Step 15),             *)
(* restoration (Step 16) and the final cleanup (Step 17)                   *)
(***************************************************************************)
\* entity_map, in the order of the dictionary: <<entity, replacement>>.
\* (The source writes the value of '&lsquo;' as ''' and so opens a
\* triple-quoted string that ends at the ''' of the '&rsquo;' line.)
entity_map == <<
    <<<<"&","n","b","s","p",";">>, <<" ">>>>, <<<<"&","n","d","a","s","h",";">>, <<Chr(8211)>> >>, <<<<"&","m","d","a","s","h",";">>, <<Chr(8212)>> >>,
    <<<<"&","h","e","l","l","i","p",";">>, <<Chr(8230)>> >>, <<<<"&","l","s","q","u","o",";">>, <<",","\n"," "," "," "," "," "," "," "," ","'","&","r","s","q","u","o",";","'",":"," ">> >>,
    <<<<"&","l","d","q","u","o",";">>, <<"\"">>>>, <<<<"&","r","d","q","u","o",";">>, <<"\"">>>>, <<<<"&","q","u","o","t",";">>, <<"\"">>>>, <<<<"&","a","p","o","s",";">>, <<"'">>>>,
    <<<<"&","a","m","p",";">>, <<"&">>>>, <<<<"&","l","t",";">>, <<"<">>>>, <<<<"&","g","t",";">>, <<">">>>> >>

\* for entity, char in entity_map.items(): text = text.replace(entity, char)
ReplaceAll(pairs, t) ==
    SubAll([k \in 1..Len(pairs) |-> <<Lit(pairs[k][1]), <<T(pairs[k][2])>> >>], t)

\* r'&#(\d+);' and r'&#x([0-9a-fA-F]+);'
DecimalEntityRe == Cat(<<Lit(<<"&","#">>), Grp(1, Plus(In(Digit))), Lit(<<";">>)>>)
HexEntityRe == Cat(<<Lit(<<"&","#","x">>), Grp(1, Plus(In(HexDigit))), Lit(<<";">>)>>)

\* chr(n) raises ValueError: n is not in range(0x110000)
ChrRaises(n) == n > MaxCodePoint

\* chr(int(m.group(1), base)) raises for one of the matches ms
AnyChrRaises(t, ms, base) ==
    \E k \in 1..Len(ms) : ChrRaises(IntOf(Group(t, ms[k], 1), base))

\* re.sub with lambda m: chr(int(m.group(1), base)), for the matches ms
DecodeAt(t, ms, base) ==
    Splice(t, ms, [k \in 1..Len(ms) |-> <<Chr(IntOf(Group(t, ms[k], 1), base))>>])

\* lambda m: chr(int(m.group(1))) and lambda m: chr(int(m.group(1), 16))
DecodeDecimal(t) == DecodeAt(t, Matches(DecimalEntityRe, t), 10)
DecodeHex(t) == DecodeAt(t, Matches(HexEntityRe, t), 16)

\* Step 13 raises ValueError: a chr() of the first or, if that substitution
\* ends, of the second substitution raises
DecodeRaises(t) ==
    \/ AnyChrRaises(ReplaceAll(entity_map, t),
                    Matches(DecimalEntityRe, ReplaceAll(entity_map, t)), 10)
    \/ AnyChrRaises(DecodeDecimal(ReplaceAll(entity_map, t)),
                    Matches(HexEntityRe, DecodeDecimal(ReplaceAll(entity_map, t))), 16)

\* Step 13
DecodeEntities(t) == DecodeHex(DecodeDecimal(ReplaceAll(entity_map, t)))

\* convert_blockquote: f'> {stripped_line}' for the lines that are not
\* empty when stripped
QuotedLines(lines) ==
    NonEmpty([n \in 1..Len(lines) |->
                 IF Strip(lines[n]) = << >> THEN << >> ELSE <<">"," ">> \o Strip(lines[n])])

\* convert_blockquote, for a match whose group 1 is inner
convert_blockquote(inner) ==
    IF Strip(inner) = << >> THEN << >>
    ELSE Join(QuotedLines(Split(Strip(inner), <<"\n">>)), <<"\n">>)

\* re.sub(r'<blockquote[^>]*>(.*?)</blockquote>', convert_blockquote, t,
\* flags=re.DOTALL | re.IGNORECASE), for the matches ms of the pattern
QuoteEach(t, ms) ==
    Splice(t, ms, [k \in 1..Len(ms) |-> convert_blockquote(Group(t, ms[k], 1))])

ConvertBlockquotes(t) == QuoteEach(t, Matches(TagPairRe(<<"b","l","o","c","k","q","u","o","t","e">>), t))

\* Step 14
ConvertHtml(t) ==
    \* r'<(?!/?u\b)[a-zA-Z][^>]*>'
    Sub(Cat(<<Lit(<<"<">>), NegAhead(Cat(<<Opt(Lit(<<"/">>)), Lit(<<"u">>), WordB>>)), In(Alpha),
              Star(NotIn({">"})), Lit(<<">">>)>>), << >>,
        ConvertBlockquotes(
            SubAll(<< <<TagPairRe(<<"s">>), Wrap(<<"~","~">>)>>,
                      <<TagPairRe(<<"d","e","l">>), Wrap(<<"~","~">>)>>,
                      <<TagPairRe(<<"s","t","r","i","k","e">>), Wrap(<<"~","~">>)>>,
                      \* r'<br\s*/?>', r'<hr\s*/?>', re.IGNORECASE
                      <<Cat(<<LitI(<<"<","b","r">>), Star(In(Space)), Opt(Lit(<<"/">>)), Lit(<<">">>)>>),
                        <<T(<<"\n">>)>> >>,
                      <<Cat(<<LitI(<<"<","h","r">>), Star(In(Space)), Opt(Lit(<<"/">>)), Lit(<<">">>)>>),
                        <<T(<<"\n","-","-","-","\n">>)>> >> >>, t)))

\* Step 15
CleanUp(t) ==
    SubAll(<<
        \* r'\n\s*\n\s*\n+'
        <<Cat(<<Lit(<<"\n">>), Star(In(Space)), Lit(<<"\n">>), Star(In(Space)), Plus(Lit(<<"\n">>))>>),
          <<T(<<"\n","\n">>)>> >>,
        \* r'\s+$', re.MULTILINE
        <<Cat(<<Plus(In(Space)), EolM>>), << >> >>,
        \* r'\(\s*\)', r'\[\s*\]'
        <<Cat(<<Lit(<<"(">>), Star(In(Space)), Lit(<<")">>)>>), << >> >>,
        <<Cat(<<Lit(<<"[">>), Star(In(Space)), Lit(<<"]">>)>>), << >> >>,
        \* r'\]\([^)]*\)\(', '] ('
        <<Cat(<<Lit(<<"]","(">>), Star(NotIn({")"})), Lit(<<")","(">>)>>), <<T(<<"]"," ","(">>)>> >>,
        \* r'\)([A-Z])', r') \1'
        <<Cat(<<Lit(<<")">>), Grp(1, In(Upper))>>), <<T(<<")"," ">>), G(1)>> >>,
        \* r'\{\{\{[^}]*\}\}\}'
        <<Cat(<<Lit(<<"{","{","{">>), Star(NotIn({"}"})), Lit(<<"}","}","}">>)>>), << >> >>,
        <<SimpleTemplateRe, << >> >> >>, t)

\* Step 16: for key, value in preserved_blocks.items():
\*              text = text.replace(key, value)
RestoreBlocks(blocks, t) ==
    ReplaceAll([k \in 1..Len(blocks) |-> <<blocks[k].key, blocks[k].value>>], t)

\* Step 17
FinalCleanUp(t) ==
    SubAll(<<
        \* r'\n\n\n+'
        <<Cat(<<Lit(<<"\n","\n","\n">>), Star(Lit(<<"\n">>))>>), <<T(<<"\n","\n">>)>> >>,
        \* r'^\s+|\s+$'
        <<Alt(<<Cat(<<Bol, Plus(In(Space))>>), Cat(<<Plus(In(Space)), Eol>>)>>), << >> >>,
        \* r'\*\s+\*', r'\*\*\s*\*\*', r'\*\*\*\s*\*\*\*', r'_\s*_'
        <<Cat(<<Lit(<<"*">>), Plus(In(Space)), Lit(<<"*">>)>>), << >> >>,
        <<Cat(<<Lit(<<"*","*">>), Star(In(Space)), Lit(<<"*","*">>)>>), << >> >>,
        <<Cat(<<Lit(<<"*","*","*">>), Star(In(Space)), Lit(<<"*","*","*">>)>>), << >> >>,
        <<Cat(<<Lit(<<"_">>), Star(In(Space)), Lit(<<"_">>)>>), << >> >>,
        \* r'\[\]\([^)]*\)'
        <<Cat(<<Lit(<<"[","]","(">>), Star(NotIn({")"})), Lit(<<")">>)>>), << >> >> >>, t)

(***************************************************************************)
(* The texts remove_complex_templates is run on.                           *)
(***************************************************************************)
\* the longest text made of fragments, in fragments
MaxFrags == 4
\* how far past max_nesting_depth the deep texts nest
DepthOver == 2
\* the number of unclosed templates in the pathological chain
ChainLen == 10
\* the length of a short run of filler characters
SmallFill == 3

ScanFrags == {OpenBraces, CloseBraces, <<"a">>, <<"}">>, <<"|">>}

RECURSIVE FragTexts(_, _)
FragTexts(frags, n) ==
    IF n = 0 THEN {<< >>}
    ELSE LET shorter == FragTexts(frags, n - 1)
         IN shorter \cup {t \o f : t \in shorter, f \in frags}

\* n templates nested in each other, with text after every closing '}}' but
\* the innermost: {{ ... {{a}}b}}b ... }}c
RECURSIVE Closers(_)
Closers(n) == IF n <= 0 THEN << >> ELSE CloseBraces \o <<"b">> \o Closers(n - 1)
Nested(n) ==
    Repeat(OpenBraces, n) \o <<"a">> \o CloseBraces \o Closers(n - 2)
        \o (IF n > 1 THEN CloseBraces ELSE << >>) \o <<"c">>

DeepTexts == {Nested(n) : n \in (max_nesting_depth - 1)..(max_nesting_depth + DepthOver)}

\* test_infinite_loop_scenario: a chain of opened, never closed templates
CiteChain(n) == Repeat(<<"{","{","c","i","t","e"," ","b","|","t","i","t","l","e","=">>, n) \o <<"z">>

CaseTexts == {
    <<"{","{","m","a","i","n","|","a"," ","{","{","b","}","}"," ","c","}","}"," ","t","a","i","l">>,
    <<"{","{","m","a","i","n","|","a","{","{","b","}","}","}","}","t">>,
    <<"{","{","c","i","t","e"," ","w","e","b","|","t","i","t","l","e","=","T","|","u","r","l","=","u","}","}"," ","p">>,
    <<"{","{","q","u","o","t","e","|","q","|","s","}","}","p">>,
    <<"{","{","M","a","i","n","|","M","}","}","\n","{","{","t","|","{","{","u","}","}","}","}","p">>,
    <<"p"," ","{","{","t","|","x","}","}"," ","q">>,
    <<"{","{","a","}","}","}">>,
    CiteChain(ChainLen) }

ScanTexts == FragTexts(ScanFrags, MaxFrags) \cup DeepTexts \cup CaseTexts

(***************************************************************************)
(* remove_complex_templates, one loop iteration per step.                  *)
(***************************************************************************)
ScanInit ==
    /\ pc = "rct_call"
    /\ \E t \in ScanTexts :
          \/ input = t /\ fillLen = 0
          \/ /\ Len(t) <= MaxFrags
             /\ input = t \o <<FILL>>
             /\ fillLen \in {SmallFill, LargeTextLimit + 1}
    /\ scan_text = << >>
    /\ i = 0
    /\ brace_stack = << >>
    /\ result = << >>
    /\ result_fill = 0
    /\ iteration_count = 0
    /\ out = << >>
    /\ out_fill = 0
    /\ ret_path = "none"
    /\ TableIdle
    /\ BatchIdle
    /\ first_result = << >>
    /\ fill_width = 1
    /\ timeout_seconds = 0
    /\ elapsed = 0
    /\ text = << >>
    /\ text_fill = 0
    /\ preserved_blocks = << >>
    /\ block_counter = 0
    /\ stages = << >>

LoopState ==
    [i |-> i, stack |-> brace_stack, result |-> result, rfill |-> result_fill,
     iter |-> iteration_count]

\* the early exit for texts over 1MB
RCT_Large ==
    /\ pc = "rct_call"
    /\ CharLen(input, fillLen) > LargeTextLimit
    /\ out' = LazyStrip(input)
    /\ out_fill' = fillLen
    /\ ret_path' = "large"
    /\ pc' = "rct_done"
    /\ UNCHANGED <<batch, input, fillLen, fill_width, tableVars, scanVars, pipeVars>>

\* the first pass and the initialisation of the loop
RCT_Enter ==
    /\ pc = "rct_call"
    /\ CharLen(input, fillLen) <= LargeTextLimit
    /\ scan_text' = FirstPass(input)
    /\ i' = ScanStart.i
    /\ brace_stack' = ScanStart.stack
    /\ result' = ScanStart.result
    /\ result_fill' = ScanStart.rfill
    /\ iteration_count' = ScanStart.iter
    /\ pc' = "rct_loop"
    /\ UNCHANGED <<batch, input, fillLen, fill_width, tableVars, out, out_fill, ret_path, pipeVars>>

\* one iteration of the while loop
RCT_Iterate ==
    /\ pc = "rct_loop"
    /\ LoopCondition(scan_text, fillLen, LoopState)
    /\ LET st == ScanStep(scan_text, fillLen, LoopState)
       IN /\ i' = st.i
          /\ brace_stack' = st.stack
          /\ result' = st.result
          /\ result_fill' = st.rfill
          /\ iteration_count' = st.iter
    /\ UNCHANGED <<batch, pc, input, fillLen, fill_width, tableVars, scan_text, out, out_fill, ret_path, pipeVars>>

\* the loop has ended: the fallback or the joined result is returned
RCT_Return ==
    /\ pc = "rct_loop"
    /\ ~LoopCondition(scan_text, fillLen, LoopState)
    /\ LET r == ScanReturn(scan_text, fillLen, LoopState)
       IN out' = r.text /\ out_fill' = r.fill
    /\ ret_path' = IF HitIterationLimit(scan_text, fillLen, LoopState)
                   THEN "fallback" ELSE "joined"
    /\ pc' = "rct_done"
    /\ UNCHANGED <<batch, input, fillLen, fill_width, tableVars, scanVars, pipeVars>>

ScanNext == RCT_Large \/ RCT_Enter \/ RCT_Iterate \/ RCT_Return

ScanSpec == ScanInit /\ [][ScanNext]_vars

\* once entered, the loop is run until it ends and the function returns:
\* nothing else runs in the call
FairScanSpec == ScanSpec /\ WF_vars(RCT_Iterate) /\ WF_vars(RCT_Return)

(***************************************************************************)
(* wikitext_to_markdown, one step of the pipeline per action.              *)
(***************************************************************************)
\* timeout_seconds=30
DefaultTimeout == 30
\* the largest reading of the clock, in seconds since start_time
MaxElapsed == 1

Timeouts == {-1, 0, DefaultTimeout}
Readings == 0..MaxElapsed

\* the documents converted
NowikiContents == {<<"x">>, <<"&","l","t",";","b","&","g","t",";">>, <<"_","_","i","n","i","t","_","_">>, <<"a"," ","*"," ","*"," ","b">>, <<" ","y"," ">>, <<"'","'","i","'","'">>, <<"{","{","t","}","}">>}
NowikiDocs ==
    {c[1] \o <<"<","n","o","w","i","k","i",">">> \o n \o <<"<","/","n","o","w","i","k","i",">">> \o c[2] :
        n \in NowikiContents, c \in {<<<< >>, << >>>>, <<<<"a"," ">>, <<" ","b"," ","{","{","t","}","}">>>>}}
CaseDocs == {
    << >>,
    <<"&","a","m","p",";","#","9","9","9","9","9","9","9","9",";">>,
    <<"&","a","m","p",";","#","6","5",";"," ","&","#","x","4","1",";"," ","&","#","9","9","9","9","9","9","9","9",";"," ","&","a","m","p",";","l","t",";"," ","&","n","b","s","p",";">>,
    <<"<","p","r","e",">","a","<","n","o","w","i","k","i",">","b","<","/","n","o","w","i","k","i",">","c","<","/","p","r","e",">">>,
    <<"<","P","R","E",">"," ","k"," ","<","/","P","R","E",">","<","c","o","d","e",">","c","<","/","c","o","d","e",">","<","m","a","t","h",">","E","=","m","c","^","2","<","/","m","a","t","h",">">>,
    <<"p"," ","{","{","t","|","{","{","u","}","}","}","}"," ","q"," ","<","!","-","-"," ","c"," ","-","-",">","r">>,
    <<"{","{","m","a","i","n","|","M","}","}"," ","'","'","'","b","'","'","'"," ","'","'","i","'","'"," ","[","[","A","|","B","]","]"," ","[","[","C","]","]"," ","[","[","A","#","S","|","T","]","]">>,
    <<"=","="," ","H"," ","=","=","\n","*"," ","i","\n","#","#"," ","j","\n",";"," ","t"," ",":"," ","d","\n",":"," ","e">>,
    <<"{","|","\n","!"," ","H","\n","|","-","\n","|"," ","c"," ","|","|"," ","d","\n","|","}","\n","z">>,
    <<"<","r","e","f"," ","n","a","m","e","=","\"","r","\"",">","R","<","/","r","e","f",">","a","<","b","r","/",">","b","<","d","i","v"," ","c","l","a","s","s","=","\"","c","\"",">","d","<","/","d","i","v",">"," ","<","u",">","u","<","/","u",">">>,
    <<"[","h","t","t","p",":","/","/","e",".","o","r","g"," ","t","]"," ","h","t","t","p",":","/","/","f",".","o","r","g"," ","[","[","f","r",":","P","]","]"," ","[","[","F","i","l","e",":","f",".","p","n","g","|","t","h","u","m","b","]","]">>,
    CiteChain(2) \o <<" ","p","r","o","s","e">> }
\* the internal links of the documents: [[article#section|shown]], with or
\* without a section and a text shown, in plain text or in bold
LinkForms ==
    [article : {<<"A">>, <<"A","b"," ","c">>}, section : {<< >>, <<"S">>}, shown : {<< >>, <<"T">>, <<"t"," ","u">>},
     bold : BOOLEAN]
LinkTarget(l) == l.article \o (IF l.section # << >> THEN <<"#">> \o l.section ELSE << >>)
Wiki(l) ==
    (IF l.bold THEN <<"'","'","'","b"," ">> ELSE << >>)
        \o <<"[","[">> \o LinkTarget(l) \o (IF l.shown # << >> THEN <<"|">> \o l.shown ELSE << >>) \o <<"]","]">>
        \o (IF l.bold THEN <<"'","'","'">> ELSE << >>)
LinkDocs == {Wiki(l) : l \in LinkForms}

\* the interwiki links of the documents
InterwikiDocs == {<<"[","[","f","r",":","P","a","r","i","s","]","]">>, <<"[","[","f","r",":","P","a","r","i","s","|","P","a","r","i","s","]","]">>}

\* the <math>, <chem> and <ce> elements of the documents: contents of one
\* line, of several lines, and of 50 and 51 characters; for <math>, with or
\* without display="block"
MathContents == {<<"E","=","m","c","^","2">>, <<"a","\n","b">>, <<"\n","x","\n">>, Repeat(<<"y">>, 50), Repeat(<<"y">>, 51)}
MathForms ==
    [elem : {<<"m","a","t","h">>}, block : BOOLEAN, content : MathContents]
        \cup [elem : {<<"c","h","e","m">>, <<"c","e">>}, block : {FALSE}, content : MathContents]
MathDoc(l) ==
    <<"<">> \o l.elem \o (IF l.block THEN <<" ","d","i","s","p","l","a","y","=","\"","b","l","o","c","k","\"">> ELSE << >>) \o <<">">> \o l.content
        \o <<"<","/">> \o l.elem \o <<">">>
MathDocs == {MathDoc(l) : l \in MathForms}

\* the documents of an entity that names an entity
EntityDocs == {<<"&","a","m","p",";","l","t",";">>, <<"&","a","m","p",";","a","m","p",";","l","t",";">>}

\* the HTML tags of the documents, around a word
TagNames == {<<"d","i","v">>, <<"s","p","a","n">>, <<"u">>, <<"u","l">>}
TagDocs ==
    {<<"<">> \o n \o a \o <<">","w","<","/">> \o n \o <<">">> : n \in TagNames, a \in {<< >>, <<" ","c","l","a","s","s","=","\"","c","\"">>}}

\* the documents of references: prose around a <ref>...</ref> element, a
\* self-closing <ref ... /> tag, or both in either order
RefPair == {<<"<","r","e","f",">","R","<","/","r","e","f",">">>, <<"<","r","e","f"," ","n","a","m","e","=","\"","n","\"",">","R","<","/","r","e","f",">">>}
RefSelfClosing == {<<"<","r","e","f"," ","n","a","m","e","=","\"","x","\""," ","/",">">>, <<"<","r","e","f"," ","n","a","m","e","=","\"","x","\"","/",">">>}
RefDocs ==
    {<<"a">> \o r \o <<" ","b">> : r \in RefPair \cup RefSelfClosing}
    \cup {<<"a">> \o r \o <<" ","p","r","o","s","e"," ">> \o q \o <<" ","b">> : r \in RefSelfClosing, q \in RefPair}
    \cup {<<"a">> \o q \o <<" ","p","r","o","s","e"," ">> \o r \o <<" ","b">> : r \in RefSelfClosing, q \in RefPair}

\* the documents that hold the text of a placeholder key beside a preserved
\* element
KeyDocs ==
    {<<"_","_","P","R","E","S","E","R","V","E","D","_","N","O","W","I","K","I","_","0","_","_"," ","<","n","o","w","i","k","i",">","x","<","/","n","o","w","i","k","i",">">>,
     <<"<","n","o","w","i","k","i",">","x","<","/","n","o","w","i","k","i",">"," ","<","p","r","e",">","y","<","/","p","r","e",">"," ","_","_","P","R","E","S","E","R","V","E","D","_","P","R","E","_","1","_","_">>}

\* the list lines of the documents: h '#' and s '*', then a gap (nothing or
\* one space) and the item
MaxRun == 2
ListRuns == {r \in (0..MaxRun) \X (0..MaxRun) : r[1] + r[2] >= 1}
ListGaps == {<< >>, <<" ">>}
ListLine(h, s, gap) == Repeat(<<"#">>, h) \o Repeat(<<"*">>, s) \o gap \o <<"i","t","e","m">>
ListDocs ==
    {ListLine(r[1], r[2], gap) : r \in ListRuns, gap \in ListGaps}
    \cup {<<";"," ","t","e","r","m">>, <<":"," ","t","e","x","t">>, <<"*"," ","a","\n","*","*"," ","b","\n","#","*"," ","c">>}

\* the documents of emphasized words and of an identifier in a preserved
\* block
EmphasisDocs ==
    {<<"'","'","a","'","'"," ","'","'","b","'","'">>, <<"'","'","'","a","'","'","'"," ","'","'","'","b","'","'","'">>, <<"'","'","a","'","'"," ","x"," ","'","'","b","'","'">>, <<"<","n","o","w","i","k","i",">","_","_","i","n","i","t","_","_","<","/","n","o","w","i","k","i",">">>}

\* the documents that end in a run of filler letters: <<text, length of the run>>
FillDocs ==
    {<<b \o <<FILL>>, n>> : b \in {<<"{","{","a","}","}">>}, n \in {SmallFill, TimeoutCap}}
    \cup {<<b \o <<FILL>>, SizeGuardLimit - Len(b) + d>> :
             b \in {<<"{","{","a","}","}","<","b",">","[","[","l","]","]">>}, d \in {0, 1}}

PipeInit ==
    /\ pc = "w2m_call"
    /\ \/ input \in NowikiDocs \cup CaseDocs \cup LinkDocs \cup InterwikiDocs \cup MathDocs
                  \cup EntityDocs \cup TagDocs \cup RefDocs \cup KeyDocs
                  \cup ListDocs \cup EmphasisDocs
          /\ fillLen = 0 /\ fill_width = 1
       \/ \E d \in FillDocs : input = d[1] /\ fillLen = d[2] /\ fill_width \in {1, 2}
    /\ timeout_seconds \in Timeouts
    /\ elapsed = 0
    /\ text = << >>
    /\ text_fill = 0
    /\ preserved_blocks = << >>
    /\ block_counter = 0
    /\ stages = << >>
    /\ scan_text = << >>
    /\ i = 0
    /\ brace_stack = << >>
    /\ result = << >>
    /\ result_fill = 0
    /\ iteration_count = 0
    /\ out = << >>
    /\ out_fill = 0
    /\ ret_path = "none"
    /\ TableIdle
    /\ BatchIdle
    /\ first_result = << >>

\* a return statement
Return(path, value, fill) ==
    /\ out' = value
    /\ out_fill' = fill
    /\ ret_path' = path
    /\ pc' = "w2m_done"

\* if not wikitext: return ""
W_Empty ==
    /\ pc = "w2m_call"
    /\ input = << >>
    /\ Return("empty", << >>, 0)
    /\ UNCHANGED <<batch, input, fillLen, fill_width, tableVars, scanVars, pipeVars>>

\* the early return for extremely large articles
W_SizeGuard ==
    /\ pc = "w2m_call"
    /\ input # << >>
    /\ SizeGuardExceeded(input, fillLen)
    /\ LET r == Truncate(SimpleText(input), fillLen, SizeGuardCap)
       IN Return("size_guard", r.text, r.fill)
    /\ stages' = Append(stages, "size_guard")
    /\ UNCHANGED <<batch, input, fillLen, fill_width, tableVars, first_result, scanVars, text, text_fill, preserved_blocks,
                   block_counter, timeout_seconds, elapsed>>

\* a step of the pipeline that rewrites the buffer
Advance(step, next, name, newText) ==
    /\ pc = step
    /\ text' = newText
    /\ pc' = next
    /\ stages' = Append(stages, name)
    /\ UNCHANGED <<batch, input, fillLen, fill_width, tableVars, first_result, scanVars, text_fill, preserved_blocks,
                   block_counter, timeout_seconds, elapsed, out, out_fill, ret_path>>

\* Step 1
W_Unescape ==
    /\ pc = "w2m_call"
    /\ input # << >>
    /\ ~SizeGuardExceeded(input, fillLen)
    /\ text' = Unescape(input)
    /\ text_fill' = fillLen
    /\ pc' = "check_1"
    /\ stages' = Append(stages, "unescape")
    /\ UNCHANGED <<batch, input, fillLen, fill_width, tableVars, first_result, scanVars, preserved_blocks, block_counter,
                   timeout_seconds, elapsed, out, out_fill, ret_path>>

\* the four calls of check_timeout and the step that follows each
Checkpoints == {"check_1", "check_2", "check_3", "check_4"}
AfterCheck(c) ==
    CASE c = "check_1" -> "step_2"
      [] c = "check_2" -> "step_4"
      [] c = "check_3" -> "step_5"
      [] c = "check_4" -> "step_6"

\* check_timeout() is true: the lazy substitution on the buffer, cut to
\* 5000 characters, is returned
W_Timeout ==
    /\ pc \in Checkpoints
    /\ \E reading \in Readings :
          /\ reading >= elapsed
          /\ TimedOut(reading, timeout_seconds)
          /\ elapsed' = reading
    /\ LET r == Truncate(LazyStrip(text), text_fill, TimeoutCap)
       IN Return("timeout", r.text, r.fill)
    /\ stages' = Append(stages, "check")
    /\ UNCHANGED <<batch, input, fillLen, fill_width, tableVars, first_result, scanVars, text, text_fill, preserved_blocks,
                   block_counter, timeout_seconds>>

\* check_timeout() is false
W_InTime ==
    /\ pc \in Checkpoints
    /\ \E reading \in Readings :
          /\ reading >= elapsed
          /\ ~TimedOut(reading, timeout_seconds)
          /\ elapsed' = reading
    /\ pc' = AfterCheck(pc)
    /\ stages' = Append(stages, "check")
    /\ UNCHANGED <<batch, input, fillLen, fill_width, tableVars, first_result, scanVars, text, text_fill, preserved_blocks,
                   block_counter, timeout_seconds, out, out_fill, ret_path>>

\* Step 2
W_Preserve ==
    /\ pc = "step_2"
    /\ LET st == PreserveBlocks(text)
       IN /\ text' = st.text
          /\ preserved_blocks' = st.blocks
          /\ block_counter' = st.counter
    /\ pc' = "step_3"
    /\ stages' = Append(stages, "preserve")
    /\ UNCHANGED <<batch, input, fillLen, fill_width, tableVars, first_result, scanVars, text_fill, timeout_seconds, elapsed,
                   out, out_fill, ret_path>>

\* Step 3
W_StripComments == Advance("step_3", "check_2", "comments", StripComments(text))

\* Step 4
W_Templates ==
    /\ pc = "step_4"
    /\ LET r == RemoveComplexTemplates(text, text_fill)
       IN text' = r.text /\ text_fill' = r.fill
    /\ pc' = "check_3"
    /\ stages' = Append(stages, "templates")
    /\ UNCHANGED <<batch, input, fillLen, fill_width, tableVars, first_result, scanVars, preserved_blocks, block_counter,
                   timeout_seconds, elapsed, out, out_fill, ret_path>>

\* Step 5
W_Tables == Advance("step_5", "check_4", "tables", ConvertTables(text, text_fill))

\* Steps 6 to 12
W_RemoveMarkup == Advance("step_6", "step_7", "markup", RemoveMarkup(text))
W_Formatting == Advance("step_7", "step_8", "formatting", ConvertFormatting(text))
W_SizeTags == Advance("step_8", "step_9", "size_tags", ConvertSizeTags(text))
W_Lists == Advance("step_9", "step_10", "lists", ConvertLists(text))
W_Headings == Advance("step_10", "step_11", "headings", ConvertHeadings(text))
W_Links == Advance("step_11", "step_12", "links", ConvertLinks(text))
W_Refs == Advance("step_12", "step_13", "refs", RemoveRefs(text))

\* Step 13
W_Entities ==
    /\ pc = "step_13"
    /\ ~DecodeRaises(text)
    /\ Advance("step_13", "step_14", "entities", DecodeEntities(text))

\* Step 13, chr() raises: the exception leaves wikitext_to_markdown
W_Entities_Raise ==
    /\ pc = "step_13"
    /\ DecodeRaises(text)
    /\ pc' = "w2m_raised"
    /\ ret_path' = "ValueError"
    /\ stages' = Append(stages, "entities")
    /\ UNCHANGED <<batch, input, fillLen, fill_width, tableVars, first_result, scanVars, text, text_fill, preserved_blocks,
                   block_counter, timeout_seconds, elapsed, out, out_fill>>

\* Steps 14 to 16
W_Html == Advance("step_14", "step_15", "html", ConvertHtml(text))
W_CleanUp == Advance("step_15", "step_16", "cleanup", CleanUp(text))
W_Restore == Advance("step_16", "step_17", "restore", RestoreBlocks(preserved_blocks, text))

\* Step 17 and return text
W_Final ==
    /\ pc = "step_17"
    /\ Return("normal", FinalCleanUp(text), text_fill)
    /\ stages' = Append(stages, "final")
    /\ UNCHANGED <<batch, input, fillLen, fill_width, tableVars, first_result, scanVars, text, text_fill, preserved_blocks,
                   block_counter, timeout_seconds, elapsed>>

\* wikitext_to_markdown is called once more, on the result of a call that
\* ran the whole pipeline
W_Again ==
    /\ pc = "w2m_done"
    /\ ret_path = "normal"
    /\ first_result = << >>
    /\ first_result' = <<out, out_fill>>
    /\ input' = out
    /\ fillLen' = out_fill
    /\ pc' = "w2m_call"
    /\ elapsed' = 0
    /\ text' = << >>
    /\ text_fill' = 0
    /\ preserved_blocks' = << >>
    /\ block_counter' = 0
    /\ stages' = << >>
    /\ out' = << >>
    /\ out_fill' = 0
    /\ ret_path' = "none"
    /\ UNCHANGED <<batch, fill_width, timeout_seconds, scanVars, tableVars>>

PipeNext ==
    \/ W_Empty \/ W_SizeGuard \/ W_Unescape \/ W_Timeout \/ W_InTime
    \/ W_Preserve \/ W_StripComments \/ W_Templates \/ W_Tables
    \/ W_RemoveMarkup \/ W_Formatting \/ W_SizeTags \/ W_Lists \/ W_Headings
    \/ W_Links \/ W_Refs \/ W_Entities \/ W_Entities_Raise
    \/ W_Html \/ W_CleanUp \/ W_Restore \/ W_Final \/ W_Again

PipeSpec == PipeInit /\ [][PipeNext]_vars

(***************************************************************************)
(* Words of the claims about wikitext_to_markdown.                         *)
(***************************************************************************)
\* the call has ended by a return statement
Returned == pc = "w2m_done"

\* the length of the document in bytes of UTF-8 (every character of the
\* documents other than the filler letters is ASCII)
ByteLen(t, n, width) == CharLen(t, n * width)

\* the number of deadline checks made so far
ChecksMade == Cardinality({k \in 1..Len(stages) : stages[k] = "check"})

\* the steps after which the deadline is checked
CheckedSteps == {"unescape", "comments", "templates", "tables"}

\* the steps of a call that runs the whole pipeline
FullPipeline ==
    <<"unescape", "check", "preserve", "comments", "check", "templates", "check",
      "tables", "check", "markup", "formatting", "size_tags", "lists", "headings",
      "links", "refs", "entities", "html", "cleanup", "restore", "final">>

\* the contents C of the <nowiki>C</nowiki> elements of the document t
NowikiContentsOf(t) ==
    LET ms == Matches(NowikiRe, t)
    IN {Group(t, ms[k], 1) : k \in 1..Len(ms)}

\* the placeholder keys minted by the call
MintedKeys == {preserved_blocks[k].key : k \in 1..Len(preserved_blocks)}

(***************************************************************************)
(* C1. wikitext_to_markdown never raises: for every document and every     *)
(* timeout the call ends by returning a string, also when a numeric entity *)
(* names a code point that is out of range, as in '&amp;#99999999;'.       *)
(***************************************************************************)
C1_NeverRaises == pc # "w2m_raised"

(***************************************************************************)
(* C2. Every placeholder key that the preservation step puts into the      *)
(* buffer is replaced by its stored content: the buffer holds no minted    *)
(* key once the restoration step has run, and no returned string holds     *)
(* one, on the normal path and on the timeout returns.                     *)
(***************************************************************************)
C2_NoPlaceholderLeft ==
    /\ pc = "step_17" => \A key \in MintedKeys : ~Contains(text, key)
    /\ Returned => \A key \in MintedKeys : ~Contains(out, key)

(***************************************************************************)
(* C3. When the whole pipeline has run, the content of every               *)
(* <nowiki>...</nowiki> element of the document is found unchanged in the  *)
(* returned string.                                                        *)
(***************************************************************************)
C3_NowikiUnchanged ==
    (Returned /\ ret_path = "normal")
        => \A content \in NowikiContentsOf(input) : Contains(out, content)

(***************************************************************************)
(* C4. The deadline is checked at four points and nowhere else: after      *)
(* entity decoding (html.unescape), after comment stripping, after         *)
(* template stripping and after table conversion, in this order.  At the   *)
(* first check that reads an elapsed time over timeout_seconds the call    *)
(* returns the lazy substitution of the buffer, cut to 5,000 characters,   *)
(* and no later step, restoration included, runs; no step runs after a     *)
(* check unless the time read was within the deadline.                     *)
(***************************************************************************)
C4_DeadlineChecks ==
    /\ \A k \in 1..Len(stages) :
          stages[k] = "check" <=> (k > 1 /\ stages[k - 1] \in CheckedSteps)
    /\ ret_path = "normal" => stages = FullPipeline
    /\ ret_path = "timeout" =>
          /\ elapsed > timeout_seconds
          /\ stages = SubSeq(FullPipeline, 1, Len(stages))
          /\ stages[Len(stages)] = "check"
          /\ out = Truncate(LazyStrip(text), text_fill, TimeoutCap).text
          /\ out_fill = Truncate(LazyStrip(text), text_fill, TimeoutCap).fill
          /\ CharLen(out, out_fill) <= TimeoutCap
    /\ (ret_path # "timeout" /\ ChecksMade > 0) => elapsed <= timeout_seconds

\* the deadline trips at the second check, on a buffer that holds a template
\* and is longer than 5,000 characters
C4_Witness ==
    /\ Returned
    /\ ret_path = "timeout"
    /\ ChecksMade = 2
    /\ Contains(text, OpenBraces)
    /\ CharLen(text, text_fill) > TimeoutCap
    /\ CharLen(out, out_fill) = TimeoutCap

RunStart(t, p) ==
    CHOOSE q \in 1..p : /\ \A n \in q..p : t[n] = t[p]
                        /\ q = 1 \/ t[q - 1] # t[p]

\* position p starts a '{{' (c = "{") or a '}}' (c = "}"): braces pair up
\* from the left of their run
TokenAt(t, p, c) ==
    /\ t[p] = c
    /\ (p - RunStart(t, p)) % 2 = 0
    /\ p < Len(t) /\ t[p + 1] = c

\* position p holds a brace that is part of no '{{' or '}}'
StrayAt(t, p) ==
    /\ t[p] \in {"{", "}"}
    /\ (p - RunStart(t, p)) % 2 = 0
    /\ ~(p < Len(t) /\ t[p + 1] = t[p])

\* the number of templates open at position p
DepthAt(t, p) ==
    Cardinality({q \in 1..(p - 1) : TokenAt(t, q, "{")})
        - Cardinality({q \in 1..(p - 1) : TokenAt(t, q, "}")})

\* every '}}' closes an open '{{', every '{{' is closed, no brace is stray
Balanced(t) ==
    /\ \A p \in 1..Len(t) : TokenAt(t, p, "}") => DepthAt(t, p) > 0
    /\ DepthAt(t, Len(t) + 1) = 0
    /\ \A p \in 1..Len(t) : ~StrayAt(t, p)

\* the nesting of a balanced text is less than d deep
NestedLessThan(t, d) == \A p \in 1..(Len(t) + 1) : DepthAt(t, p) < d

\* the characters of a balanced text that are outside every template
OutsideTemplates(t) ==
    LET kept == {p \in 1..Len(t) : t[p] \notin {"{", "}"} /\ DepthAt(t, p) = 0}
        Nth(n) == CHOOSE p \in kept : Cardinality({q \in kept : q <= p}) = n
    IN [n \in 1..Cardinality(kept) |-> t[Nth(n)]]

\* a is b with some characters left out
RECURSIVE IsSubseq(_, _)
IsSubseq(a, b) ==
    IF a = << >> THEN TRUE
    ELSE IF b = << >> THEN FALSE
    ELSE IF Head(a) = Head(b) THEN IsSubseq(Tail(a), Tail(b))
    ELSE IsSubseq(a, Tail(b))

(***************************************************************************)
(* C6. For every input of remove_complex_templates whose '{{' and '}}'     *)
(* are balanced and nested less than 50 deep, the output holds no '{{' and *)
(* no '}}', and every character outside the outermost templates of the     *)
(* input is kept, in order; also when a cite, quote or main template holds *)
(* a nested template.                                                      *)
(***************************************************************************)
C6_StripsOutermostSpans ==
    (/\ pc = "rct_done"
     /\ ret_path # "large"
     /\ Balanced(input)
     /\ NestedLessThan(input, max_nesting_depth))
    => /\ ~Contains(out, OpenBraces)
       /\ ~Contains(out, CloseBraces)
       /\ IsSubseq(OutsideTemplates(input), out)

(***************************************************************************)
(* C7. In every state of the balanced-brace scan, brace_stack holds at     *)
(* most max_nesting_depth (50) entries.                                    *)
(***************************************************************************)
C7_StackBounded == Len(brace_stack) <= max_nesting_depth

\* a '{{' is met with the stack full
C7_Witness ==
    /\ pc = "rct_loop"
    /\ Len(brace_stack) = max_nesting_depth
    /\ PairAt(scan_text, fillLen, i, OpenBraces)

(***************************************************************************)
(* C8. A '{{' met with the stack at the maximum depth is skipped without   *)
(* affecting sibling content: for balanced text nested deeper than the     *)
(* maximum, the scan returns what it would with no limit on the depth,     *)
(* the characters outside the outermost templates and no others.           *)
(***************************************************************************)
C8_DeepSameAsUnlimited ==
    (/\ pc = "rct_done"
     /\ ret_path = "joined"
     /\ Balanced(scan_text)
     /\ ~NestedLessThan(scan_text, max_nesting_depth + 1))
    => out = OutsideTemplates(scan_text)

C10_ScanTerminates ==
    /\ [][(pc = "rct_loop" /\ pc' = "rct_loop") => i' > i]_vars
    /\ (pc = "rct_loop") ~> (pc = "rct_done")

\* the scan of the chain of unclosed templates has returned
C10_Witness ==
    /\ pc = "rct_done"
    /\ input = CiteChain(ChainLen)
    /\ ChainLen >= 10

(***************************************************************************)
(* convert_wikitable, one line of the table per step.                      *)
(*                                                                         *)
(* input is group 1 of the match. A last element NLRUN stands for a run of *)
(* blankLen newline characters, that is for blankLen empty lines that end  *)
(* the table; FILL stands for fillLen filler letters.                      *)
(***************************************************************************)
NLRUN == "\\n*"

\* the text before the run of newlines
Body(t) == IF t # << >> /\ t[Len(t)] = NLRUN THEN SubSeq(t, 1, Len(t) - 1) ELSE t

\* the length of the run of newlines that ends t
BlankOf(t, blank) == IF Body(t) # t THEN blank ELSE 0

\* len(table_content)
TableSize(t, fill, blank) ==
    Len(Body(t)) + (IF \E k \in 1..Len(t) : t[k] = FILL THEN fill - 1 ELSE 0)
                 + BlankOf(t, blank)

\* len(table_content.split('\n'))
LineCount(t, blank) == Len(Split(Body(t), <<"\n">>)) + BlankOf(t, blank)

\* lines[:n]
FirstLines(ls, n) == IF Len(ls) > n THEN SubSeq(ls, 1, n) ELSE ls

TooLarge_AtLimit(t, fill, blank) == TableSize(t, fill, blank) >= TableCharLimit

\* len(table_content) > 50000
TooLarge(t, fill, blank) == TableSize(t, fill, blank) > TableCharLimit

TooLong_Late(t, blank) == LineCount(t, blank) > TableLineLimit + 1

\* len(lines) > 500
TooLong(t, blank) == LineCount(t, blank) > TableLineLimit

\* lines[k], for table_content.split('\n')
LineAt(ls, k) == IF k <= Len(ls) THEN ls[k] ELSE << >>

\* while len(row) < n: row.append('')
PadRow(row, n) == row \o [k \in 1..(n - Len(row)) |-> << >>]

\* the lines a small table is made of
TableLineKinds == {
    <<" ","c","l","a","s","s","=","\"","w","\"">>,
    <<"|","-">>,
    <<"!"," ","H">>,
    <<"!"," ","H"," ","!","!"," ","K">>,
    <<"!"," ">>,
    <<"|"," ","a">>,
    <<"|"," ","b"," ","|","|"," ","c">>,
    <<"|"," ","s","t","y","l","e","=","\"","s","\""," ","|"," ","d"," ","|","|"," ","e"," ","|","|"," ","f">> }

\* the number of lines of a small table
MaxTableLines == 3

RECURSIVE LineSeqs(_, _)
LineSeqs(kinds, n) ==
    IF n = 0 THEN {<< >>}
    ELSE LET shorter == LineSeqs(kinds, n - 1)
         IN shorter \cup {Append(ls, l) : ls \in shorter, l \in kinds}

\* a table of the test documents, the text between '{|' and '|}'
TestTable == <<"\n","!"," ","H"," ","!","!"," ","K","\n","|","-","\n","|"," ","a"," ","|","|"," ","b">>

\* a table of rows of unequal lengths
RaggedTable == <<"\n","!"," ","H"," ","!","!"," ","K","\n","|","-","\n","|"," ","a","\n","|","-","\n","|"," ","d"," ","|","|"," ","e"," ","|","|"," ","f","\n">>

\* the tables of one cell that holds a link with a shown text, without and
\* with an attribute segment before it
LinkCell == <<"[","[","A","r","t","i","c","l","e","|","T","e","x","t","]","]">>
LinkTables == {<<"\n","|"," ">> \o LinkCell \o <<"\n">>, <<"\n","|"," ","s","t","y","l","e","=","\"","s","\""," ","|"," ">> \o LinkCell \o <<"\n">>}

\* the tables converted: <<table_content, fillLen, blankLen>>; the small
\* tables, and the tables at the limits of size and of lines
TableDocs ==
    {<<<<"\n">> \o Join(ls, <<"\n">>) \o <<"\n">>, 0, 0>> : ls \in LineSeqs(TableLineKinds, MaxTableLines)}
    \cup {<<RaggedTable, 0, 0>>}
    \cup {<<t, 0, 0>> : t \in LinkTables}
    \cup {<<TestTable \o <<FILL>>, TableCharLimit - Len(TestTable) + d, 0>> : d \in {-1, 0, 1}}
    \cup {<<TestTable \o <<NLRUN>>, 0, TableLineLimit - Len(Split(TestTable, <<"\n">>)) + d>> :
             d \in {0, 1}}
    \cup {<<TestTable \o <<FILL, NLRUN>>, TableCharLimit - Len(TestTable) + 1,
            TableLineLimit - Len(Split(TestTable, <<"\n">>)) + 1>>}

TableInit ==
    /\ pc = "cw_call"
    /\ \E d \in TableDocs : input = d[1] /\ fillLen = d[2] /\ blankLen = d[3]
    /\ fill_width = 1
    /\ table = NoTable
    /\ BatchIdle
    /\ out = << >>
    /\ out_fill = 0
    /\ out_blank = 0
    /\ ret_path = "none"
    /\ scan_text = << >>
    /\ i = 0
    /\ brace_stack = << >>
    /\ result = << >>
    /\ result_fill = 0
    /\ iteration_count = 0
    /\ timeout_seconds = 0
    /\ elapsed = 0
    /\ text = << >>
    /\ text_fill = 0
    /\ preserved_blocks = << >>
    /\ block_counter = 0
    /\ stages = << >>
    /\ first_result = << >>

\* the run of n newline characters, if any
Run(n) == IF n > 0 THEN <<NLRUN>> ELSE << >>

\* if len(table_content) > 50000: the lazy regex approach
CW_Lazy ==
    /\ pc = "cw_call"
    /\ TooLarge(input, fillLen, blankLen)
    /\ out' = <<"\n">> \o LazyTable(Body(input)) \o Run(BlankOf(input, blankLen)) \o <<"\n">>
    /\ out_fill' = fillLen
    /\ out_blank' = BlankOf(input, blankLen)
    /\ ret_path' = "lazy"
    /\ pc' = "cw_done"
    /\ UNCHANGED <<batch, input, fillLen, fill_width, blankLen, table, scanVars, pipeVars>>

\* if len(lines) > 500: the first 500 lines by the lazy approach, and the
\* marker
CW_Truncate ==
    /\ pc = "cw_call"
    /\ ~TooLarge(input, fillLen, blankLen)
    /\ TooLong(input, blankLen)
    /\ table' = [table EXCEPT !.lines = Split(Body(input), <<"\n">>)]
    /\ out' = <<"\n">> \o LazyTable(Join(FirstLines(table'.lines, TableLineLimit), <<"\n">>))
                  \o Run(TableLineLimit - Len(table'.lines)) \o <<"\n",".",".","."," ","(","t","a","b","l","e"," ","c","o","n","t","i","n","u","e","s",")","\n">>
    /\ out_fill' = fillLen
    /\ out_blank' = Max({TableLineLimit - Len(table'.lines), 0})
    /\ ret_path' = "lazy_truncated"
    /\ pc' = "cw_done"
    /\ UNCHANGED <<batch, input, fillLen, fill_width, blankLen, scanVars, pipeVars>>

\* otherwise: the full structural parse begins
CW_Parse ==
    /\ pc = "cw_call"
    /\ ~TooLarge(input, fillLen, blankLen)
    /\ ~TooLong(input, blankLen)
    /\ table' = [table EXCEPT !.lines = Split(Body(input), <<"\n">>), !.line_no = 1]
    /\ pc' = "cw_loop"
    /\ UNCHANGED <<batch, input, fillLen, fill_width, blankLen, out, out_fill, out_blank, ret_path,
                   scanVars, pipeVars>>

\* for line in lines: one line
CW_Line ==
    /\ pc = "cw_loop"
    /\ table.line_no <= LineCount(input, blankLen)
    /\ table' = [TableLine(Strip(LineAt(table.lines, table.line_no)), table)
                    EXCEPT !.line_no = table.line_no + 1]
    /\ UNCHANGED <<batch, pc, input, fillLen, fill_width, blankLen, out, out_fill, out_blank,
                   ret_path, scanVars, pipeVars>>

\* the number of columns of the table built from the headers and the rows
ColumnCount(hs, rows) ==
    IF hs # << >> THEN Len(hs)
    ELSE IF rows # << >> THEN Max({Len(rows[k]) : k \in 1..Len(rows)})
    ELSE 0

\* if current_row: data_rows.append(current_row)
WithFinalRow(st) ==
    IF st.current_row # << >> THEN Append(st.data_rows, st.current_row) ELSE st.data_rows

\* after the loop: the final row, the Markdown rows (a row is padded in
\* place, and cut in a copy), and the return
CW_Build ==
    /\ pc = "cw_loop"
    /\ table.line_no > LineCount(input, blankLen)
    /\ table' = [table EXCEPT
                    !.data_rows = [k \in 1..Len(WithFinalRow(table)) |->
                                      PadRow(WithFinalRow(table)[k],
                                             ColumnCount(table.headers, WithFinalRow(table)))],
                    !.markdown_rows = MarkdownRows(table.headers, WithFinalRow(table))]
    /\ out' = TableText(table'.markdown_rows)
    /\ out_fill' = fillLen
    /\ ret_path' = "structural"
    /\ pc' = "cw_done"
    /\ UNCHANGED <<batch, input, fillLen, fill_width, blankLen, out_blank, scanVars, pipeVars>>

TableNext == CW_Lazy \/ CW_Truncate \/ CW_Parse \/ CW_Line \/ CW_Build

TableSpec == TableInit /\ [][TableNext]_vars

(***************************************************************************)
(* Words of the claims about the degraded paths.                           *)
(***************************************************************************)
\* the brace scan of the document t ends with a template still open
LeavesTemplateOpen(t, n) == RunLoop(t, n, ScanStart).stack # << >>

\* the call took a degraded path: the size guard, a tripped deadline, or a
\* document whose templates do not close
Degraded ==
    \/ ret_path \in {"size_guard", "timeout"}
    \/ LeavesTemplateOpen(input, fillLen)

(***************************************************************************)
(* C11. A non-empty document that takes a degraded path (size ceiling,     *)
(* tripped deadline, unbalanced or over-deep templates) is never returned  *)
(* as the empty string; prose that follows an unclosed chain of            *)
(* {{cite ...|title={{cite ... does not come back empty.                   *)
(***************************************************************************)
C11_DegradedNonEmpty ==
    (Returned /\ input # << >> /\ Degraded) => CharLen(out, out_fill) > 0

(***************************************************************************)
(* Words of the claims about tables.                                       *)
(***************************************************************************)
\* convert_wikitable has returned the table of the full structural parse
Structured == pc = "cw_done" /\ ret_path = "structural"

\* the rows of cells the loop collected (a short row has been padded in
\* place by the time the table is returned)
RowsParsed == table.data_rows

\* the length of the widest data row
Widest == Max({Len(RowsParsed[k]) : k \in 1..Len(RowsParsed)})

(***************************************************************************)
(* C12. A Markdown table of the full structural parse is a header row, one *)
(* separator row and one row for each data row, all of N cells: N is the   *)
(* number of header cells if the table has any (a data row is padded with  *)
(* empty cells or cut to N cells); otherwise the headers are Col 1..Col N, *)
(* N the length of the widest data row.                                    *)
(***************************************************************************)
C12_UniformRows ==
    (Structured /\ table.markdown_rows # << >>) =>
        LET N == IF table.headers # << >> THEN Len(table.headers) ELSE Widest
            header == IF table.headers # << >> THEN table.headers
                      ELSE [k \in 1..N |-> <<"C","o","l"," ">> \o Digits(k)]
        IN /\ N > 0
           /\ Len(table.markdown_rows) = 2 + Len(RowsParsed)
           /\ table.markdown_rows[1] = TableRow(header)
           /\ table.markdown_rows[2] = TableRow([k \in 1..N |-> <<"-","-","-">>])
           /\ \A k \in 1..Len(RowsParsed) :
                 /\ Len(RowsParsed[k]) >= N
                 /\ table.markdown_rows[k + 2] = TableRow(SubSeq(RowsParsed[k], 1, N))
           /\ out = <<"\n">> \o Join(table.markdown_rows, <<"\n">>) \o <<"\n">>

\* a table with two headers, a row of one cell (padded) and a row of three
\* cells (cut) has been converted
C12_Witness ==
    /\ Structured
    /\ Len(table.headers) = 2
    /\ \E j, k \in 1..Len(RowsParsed) :
          /\ RowsParsed[j] = <<<<"a">>, << >> >>
          /\ Len(RowsParsed[k]) = 3
          /\ Len(table.markdown_rows) = 2 + Len(RowsParsed)

\* convert_wikitable has returned
Converted == pc = "cw_done"

\* the size of the table's content, and the number of its lines
ContentSize == TableSize(input, fillLen, blankLen)
ContentLines == LineCount(input, blankLen)

\* the table got the lazy textual cleanup
LazyCleanup == ret_path \in {"lazy", "lazy_truncated"}

(***************************************************************************)
(* C13, as stated. A table whose content is smaller than 50,000 and has at *)
(* most 500 lines gets the full structural parse; a table whose content    *)
(* size is 50,000 or more, or that has more than 500 lines, gets the lazy  *)
(* textual cleanup.                                                        *)
(***************************************************************************)
C13_Thresholds ==
    Converted =>
        /\ (ContentSize < TableCharLimit /\ ContentLines <= TableLineLimit) => Structured
        /\ (ContentSize >= TableCharLimit \/ ContentLines > TableLineLimit) => LazyCleanup

(***************************************************************************)
(* C13, amended. A table whose content has at most 50,000 characters and   *)
(* at most 500 lines gets the full structural parse; a table whose content *)
(* has more than 50,000 characters, or more than 500 lines, gets the lazy  *)
(* textual cleanup.                                                        *)
(***************************************************************************)
C13_ThresholdsInclusive ==
    Converted =>
        /\ (ContentSize <= TableCharLimit /\ ContentLines <= TableLineLimit) => Structured
        /\ (ContentSize > TableCharLimit \/ ContentLines > TableLineLimit) => LazyCleanup

\* a table of exactly 50,000 characters has got the full structural parse
C13_Witness ==
    /\ Converted
    /\ ContentSize = TableCharLimit
    /\ Structured
    /\ table.markdown_rows # << >>

\* the text holds the marker of a table cut short
HasMarker(t) == Contains(t, <<".",".","."," ","(","t","a","b","l","e"," ","c","o","n","t","i","n","u","e","s",")">>)

(***************************************************************************)
(* C14, as stated. A table of more than 500 lines yields output that holds *)
(* the marker '... (table continues)', whatever its size in characters.    *)
(***************************************************************************)
C14_MarkerWhateverSize ==
    (Converted /\ ContentLines > TableLineLimit) => HasMarker(out)

(***************************************************************************)
(* C14, amended. A table of more than 500 lines and of at most 50,000      *)
(* characters yields output that holds the marker '... (table continues)'. *)
(***************************************************************************)
C14_MarkerUnderSizeLimit ==
    (Converted /\ ContentLines > TableLineLimit /\ ContentSize <= TableCharLimit)
        => HasMarker(out)

\* a table of 501 lines has been cut to 500 lines and the marker
C14_Witness ==
    /\ Converted
    /\ ContentLines = TableLineLimit + 1
    /\ ContentSize <= TableCharLimit
    /\ ret_path = "lazy_truncated"
    /\ HasMarker(out)

(***************************************************************************)
(* Words of the claims about links.                                        *)
(***************************************************************************)
\* the Markdown of an internal link: [shown](article#section), the target
\* standing for a text that is not given
LinkMarkdown(l) ==
    (IF l.bold THEN <<"*","*","b"," ">> ELSE << >>)
        \o <<"[">> \o (IF l.shown # << >> THEN l.shown ELSE LinkTarget(l)) \o <<"]","(">>
        \o LinkTarget(l) \o <<")">>
        \o (IF l.bold THEN <<"*","*">> ELSE << >>)

\* the rule of Step 11 named for the form of the link: 1 for
\* [[Article#Section|Text]], 2 for [[Article|Text]], 3 for
\* [[Article#Section]], 4 for [[Article]]
RuleFor(l) ==
    IF l.shown # << >> THEN (IF l.section # << >> THEN 1 ELSE 2)
    ELSE (IF l.section # << >> THEN 3 ELSE 4)

\* the first rule of Step 11 whose pattern matches in t (0 if none does)
FirstLinkRule(t) ==
    LET ks == {k \in 1..Len(LinkRules) : Search(LinkRules[k][1], t).ok}
    IN IF ks = {} THEN 0 ELSE CHOOSE k \in ks : \A j \in ks : k <= j

(***************************************************************************)
(* C15. [[Article#Section|Text]] becomes [Text](Article#Section),          *)
(* [[Article|Text]] becomes [Text](Article), [[Article]] becomes           *)
(* [Article](Article): the link is rewritten by the first rule of the link *)
(* stage that applies to it, no later rule rewrites it again, and the call  *)
(* returns it so, also when the link stands inside bold markup.            *)
(***************************************************************************)
C15_LinkPrecedence ==
    \A l \in LinkForms :
        input = Wiki(l) =>
            /\ pc = "step_11" =>
                  /\ FirstLinkRule(text) = RuleFor(l)
                  /\ SubAll(SubSeq(LinkRules, 1, RuleFor(l)), text) = LinkMarkdown(l)
                  /\ ConvertLinks(text) = LinkMarkdown(l)
            /\ (Returned /\ stages = FullPipeline) => out = LinkMarkdown(l)

\* '''b [[A#S|T]]''' has been converted
C15_Witness ==
    /\ Returned
    /\ stages = FullPipeline
    /\ input = Wiki([article |-> <<"A">>, section |-> <<"S">>, shown |-> <<"T">>, bold |-> TRUE])
    /\ out = <<"*","*","b"," ","[","T","]","(","A","#","S",")","*","*">>

(***************************************************************************)
(* C16. An interwiki link, [[fr:Paris]] or [[fr:Paris|Paris]], reaches the *)
(* link stage, no earlier stage having consumed it, and is returned as a   *)
(* link to https://fr.wikipedia.org/wiki/Paris.                            *)
(***************************************************************************)
C16_InterwikiRewritten ==
    input \in InterwikiDocs =>
        /\ pc = "step_11" => text = input
        /\ (Returned /\ stages = FullPipeline)
               => out = <<"[","P","a","r","i","s","]","(","h","t","t","p","s",":","/","/","f","r",".","w","i","k","i","p","e","d","i","a",".","o","r","g","/","w","i","k","i","/","P","a","r","i","s",")">>

(***************************************************************************)
(* C17. Conversion is idempotent on its own output: when a call that ran   *)
(* the whole pipeline is followed by a call on its result that runs the    *)
(* whole pipeline too, the second call returns that result unchanged       *)
(* (## Title, - item and 1. item stay as they are).                        *)
(***************************************************************************)
C17_Idempotent ==
    (Returned /\ stages = FullPipeline /\ first_result # << >>)
        => <<out, out_fill>> = first_result

(***************************************************************************)
(* Words of the claims about math and chemistry.                           *)
(***************************************************************************)
\* the content spans several lines, is longer than 50 characters, or the
\* tag carries the block-display attribute
IsBlockForm(l) ==
    \/ \E n \in 1..Len(l.content) : l.content[n] = "\n"
    \/ Len(Strip(l.content)) > 50
    \/ l.block

\* the fenced block tagged math or chemistry, and the inline form
FencedForm(l) ==
    Fenced(IF l.elem = <<"m","a","t","h">> THEN <<"m","a","t","h">> ELSE <<"c","h","e","m","i","s","t","r","y">>, Strip(l.content))
InlineForm(l) == <<"$">> \o Strip(l.content) \o <<"$">>

\* the element has been extracted; the call has returned its rendering
Extracted == Len(preserved_blocks) = 1 /\ first_result = << >>
Rendered == Returned /\ stages = FullPipeline /\ first_result = << >>

C19_DecodedOnce ==
    (Rendered /\ input \in EntityDocs) => out = <<"&">> \o SubSeq(input, 6, Len(input))

(***************************************************************************)
(* Words of the claim about HTML tags.                                     *)
(***************************************************************************)
\* an HTML tag, opening or closing: '<' or '</', a letter, and the text up
\* to the next '>'
HtmlTagRe ==
    Cat(<<Lit(<<"<">>), Opt(Lit(<<"/">>)), In(Alpha), Star(NotIn({">"})), Lit(<<">">>)>>)

\* the HTML tags of the text t
HtmlTagsOf(t) == {Group0(t, m) : m \in {Matches(HtmlTagRe, t)[k] : k \in 1..Len(Matches(HtmlTagRe, t))}}

(***************************************************************************)
(* C20. After the step that removes the remaining HTML tags, the buffer    *)
(* holds no HTML tag, opening or closing, other than <u> and </u>, and a   *)
(* <u>...</u> element is as it was.                                        *)
(***************************************************************************)
C20_NoTagsLeft ==
    pc = "step_15" =>
        /\ HtmlTagsOf(text) \subseteq {<<"<","u",">">>, <<"<","/","u",">">>}
        /\ input = <<"<","u",">","w","<","/","u",">">> => text = input

(***************************************************************************)
(* parse_wikipedia_xml_fast and process_article_fast: a dump is read line  *)
(* by line, each page that has a title, a text and an id is converted and  *)
(* stored, and the results are counted.                                    *)
(***************************************************************************)
\* the lines
HeaderLine == <<"<","m","e","d","i","a","w","i","k","i"," ","x","m","l",":","l","a","n","g","=","\"","e","n","\"",">">>
PageStartLine == <<" "," ","<","p","a","g","e",">">>
PageEndLine == <<" "," ","<","/","p","a","g","e",">">>
TitleLines == {<<" "," "," "," ","<","t","i","t","l","e",">","A","l","p","h","a","<","/","t","i","t","l","e",">">>, <<" "," "," "," ","<","t","i","t","l","e",">","C","a","t","e","g","o","r","y",":","B","e","t","a","<","/","t","i","t","l","e",">">>}
TitleOpenLine == <<" "," "," "," ","<","t","i","t","l","e",">","A","l">>
TitleCloseLine == <<"p","h","a","<","/","t","i","t","l","e",">">>
IdLines == {<<" "," "," "," ","<","i","d",">","1","<","/","i","d",">">>, <<" "," "," "," ","<","i","d",">","2","<","/","i","d",">">>}
RevisionLine == <<" "," "," "," ","<","r","e","v","i","s","i","o","n",">">>
\* the texts of the pages of the dumps: a redirect, a text whose conversion
\* raises, an article, and an article of three lines
RedirectText == <<"#","R","E","D","I","R","E","C","T"," ","[","[","A","l","p","h","a","]","]">>
RaisingText == <<"&","a","m","p",";","#","9","9","9","9","9","9","9","9",";">>
ArticleText == <<"'","'","'","A","l","p","h","a","'","'","'"," ","i","s"," ","t","h","e"," ","f","i","r","s","t"," ","l","e","t","t","e","r"," ","o","f"," ","t","h","e"," ","[","[","G","r","e","e","k"," ","a","l","p","h","a","b","e","t","]","]",".">>
FirstPart == <<"'","'","'","B","e","t","a","'","'","'"," ","i","s"," ","t","h","e">>
LastPart == <<"s","e","c","o","n","d"," ","l","e","t","t","e","r",".">>

TextLine(content) == <<" "," "," "," "," "," ","<","t","e","x","t"," ","x","m","l",":","s","p","a","c","e","=","\"","p","r","e","s","e","r","v","e","\"",">">> \o content \o <<"<","/","t","e","x","t",">">>
TextLines == {TextLine(RedirectText), TextLine(RaisingText), TextLine(ArticleText),
              <<" "," "," "," "," "," ","<","t","e","x","t"," ","b","y","t","e","s","=","\"","0","\""," ","/",">">>}
TextOpenLine == <<" "," "," "," "," "," ","<","t","e","x","t"," ","x","m","l",":","s","p","a","c","e","=","\"","p","r","e","s","e","r","v","e","\"",">">> \o FirstPart
ContentLine == <<" "," ","I","t"," ","c","o","m","e","s"," ","a","f","t","e","r"," ","a","l","p","h","a"," ","a","n","d"," ","i","t","s"," ","v","a","l","u","e"," ","i","s"," ","t","w","o",";"," ","i","t"," ","i","s"," ","t","h","e">>
TextCloseLine == LastPart \o <<"<","/","t","e","x","t",">">>

\* the texts that the loop gives to process_article_fast
PageTexts ==
    {RedirectText, RaisingText, ArticleText, FirstPart \o LastPart,
     FirstPart \o Strip(ContentLine) \o <<"\n">> \o LastPart}

\* the elements of a page, in the order of an export, and the place of an
\* element in it
ExportOrder == <<"title", "id", "revision", "revision id", "text">>
Place(name) == CHOOSE k \in 1..Len(ExportOrder) : ExportOrder[k] = name

\* the place in the page after a line
RankAfter(rank, line) ==
    IF line \in TitleLines \cup {TitleOpenLine, TitleCloseLine} THEN Place("title")
    ELSE IF line \in IdLines
    THEN (IF rank < Place("id") THEN Place("id") ELSE Place("revision id"))
    ELSE IF line = RevisionLine THEN Place("revision")
    ELSE IF line \in TextLines \cup {TextOpenLine, ContentLine, TextCloseLine}
    THEN Place("text")
    ELSE IF line = PageEndLine THEN 0
    ELSE rank

\* the lines of a page, in the order of an export
PageLines ==
    TitleLines \cup {TitleOpenLine} \cup IdLines \cup {RevisionLine} \cup TextLines
        \cup {TextOpenLine, PageEndLine}

\* the lines of the dumps
DumpAlphabet ==
    {HeaderLine, PageStartLine, TitleCloseLine, ContentLine, TextCloseLine} \cup PageLines

\* A dump is a well-formed export.  The content of a <title> or <text>
\* element holds no tag: inside an open element only its content and its
\* end can follow.  The header is the first line, and the elements of a page
\* come in the order of the export, any of them left out.
DumpLines(b) ==
    IF b.element = "title" THEN {TitleCloseLine}
    ELSE IF b.element = "text" THEN {ContentLine, TextCloseLine}
    ELSE IF b.element = "content" THEN {TextCloseLine}
    ELSE IF b.line_count = 0 THEN {HeaderLine}
    ELSE IF b.element = "" THEN {PageStartLine}
    ELSE {line \in PageLines : RankAfter(b.rank, line) > b.rank \/ line = PageEndLine}

\* the element a dump is in after the line
ElementAfter(element, line) ==
    IF line = TitleOpenLine THEN "title"
    ELSE IF line = TextOpenLine THEN "text"
    ELSE IF line = ContentLine THEN "content"
    ELSE IF line = PageEndLine THEN ""
    ELSE IF line \in {PageStartLine, TitleCloseLine, TextCloseLine} THEN "page"
    ELSE element

\* the number of lines of a dump
MaxLines == 12

\* r'<title>(.*?)</title>', r'<id>(\d+)</id>', r'<text[^>]*>(.*)'
TitleRe == Cat(<<Lit(<<"<","t","i","t","l","e",">">>), Grp(1, LazyStar(Dot)), Lit(<<"<","/","t","i","t","l","e",">">>)>>)
IdRe == Cat(<<Lit(<<"<","i","d",">">>), Grp(1, Plus(In(Digit))), Lit(<<"<","/","i","d",">">>)>>)
TextRe == Cat(<<Lit(<<"<","t","e","x","t">>), Star(NotIn({">"})), Lit(<<">">>), Grp(1, Star(Dot))>>)

\* current_page[key] = value
SetKey(b, key, value) == [b EXCEPT !.current_page[key] = Holding(value)]

\* the tests and the searches of the loop body on a stripped line
Tests(line) ==
    [line |-> line,
     page_start |-> Contains(line, <<"<","p","a","g","e",">">>), page_end |-> Contains(line, <<"<","/","p","a","g","e",">">>),
     title |-> Contains(line, <<"<","t","i","t","l","e",">">>), title_end |-> Contains(line, <<"<","/","t","i","t","l","e",">">>),
     id |-> Contains(line, <<"<","i","d",">">>),
     text |-> Contains(line, <<"<","t","e","x","t">>), text_end |-> Contains(line, <<"<","/","t","e","x","t",">">>),
     title_match |-> Search(TitleRe, line), id_match |-> Search(IdRe, line),
     text_match |-> Search(TextRe, line)]

\* those on the lines of the dumps, stripped by line.strip(), as pairs of
\* a line and its tests
LineTests == {<<line, Tests(Strip(line))>> : line \in DumpAlphabet}
TestsOf(line) == (CHOOSE tested \in LineTests : tested[1] = line)[2]

\* the branch of the loop body taken for a line, by the tests in the order
\* of the source
Branch(b, seen) ==
    IF seen.page_start THEN "page"
    ELSE IF seen.page_end /\ b.in_page THEN "end"
    ELSE IF ~b.in_page THEN "outside"
    ELSE IF seen.title THEN "title"
    ELSE IF b.in_title THEN "in_title"
    ELSE IF seen.id /\ ~Has(b.current_page, "id") THEN "id"
    ELSE IF seen.text THEN "text"
    ELSE IF b.in_text THEN "in_text"
    ELSE "other"

\* if 'title' in current_page and 'text' in current_page and 'id' in current_page
Complete(page) == Has(page, "title") /\ Has(page, "text") /\ Has(page, "id")

\* line_count += 1, and the history of the dump: the element the line
\* leaves open, its place in the page, the first <id> line of the page, and
\* the '</page>' lines met in a page that has the three fields, or lacks one
Counting(b, line) ==
    [b EXCEPT !.line_count = @ + 1,
              !.element = ElementAfter(@, line),
              !.rank = RankAfter(@, line),
              !.first_id = IF line = PageStartLine THEN Absent
                           ELSE IF @ = Absent /\ b.in_page /\ line \in IdLines
                           THEN Holding(Group(TestsOf(line).line, TestsOf(line).id_match, 1))
                           ELSE @,
              !.closed = IF line = PageEndLine /\ b.in_page /\ Complete(b.current_page)
                         THEN @ + 1 ELSE @,
              !.dropped = IF line = PageEndLine /\ b.in_page /\ ~Complete(b.current_page)
                          THEN @ + 1 ELSE @]

\* if '<title>' in line
ReadTitle(b, seen) ==
    [(IF seen.title_match.ok
      THEN SetKey(b, "title", Group(seen.line, seen.title_match, 1)) ELSE b)
     EXCEPT !.in_title = ~seen.title_end]

\* if in_title
ReadInTitle(b, seen) ==
    IF seen.title_end
    THEN [SetKey(b, "title", b.current_content \o Split(seen.line, <<"<","/","t","i","t","l","e",">">>)[1])
          EXCEPT !.current_content = << >>, !.in_title = FALSE]
    ELSE [b EXCEPT !.current_content = @ \o seen.line]

\* if '<id>' in line and 'id' not in current_page
ReadId(b, seen) ==
    IF seen.id_match.ok THEN SetKey(b, "id", Group(seen.line, seen.id_match, 1)) ELSE b

\* if '<text' in line, for the content that follows the tag
ReadTextFrom(b, content) ==
    IF Contains(content, <<"<","/","t","e","x","t",">">>)
    THEN [SetKey(b, "text", Split(content, <<"<","/","t","e","x","t",">">>)[1]) EXCEPT !.current_content = content]
    ELSE [b EXCEPT !.current_content = content, !.in_text = TRUE]

ReadText(b, seen) ==
    IF seen.text_match.ok THEN ReadTextFrom(b, Group(seen.line, seen.text_match, 1))
    ELSE b

\* if in_text
ReadInText(b, seen) ==
    IF seen.text_end
    THEN [SetKey(b, "text", b.current_content \o Split(seen.line, <<"<","/","t","e","x","t",">">>)[1])
          EXCEPT !.current_content = << >>, !.in_text = FALSE]
    ELSE [b EXCEPT !.current_content = @ \o seen.line \o <<"\n">>]

\* the namespaces of the pages that are skipped
SkippedNamespaces == {
    <<"F","i","l","e">>, <<"C","a","t","e","g","o","r","y">>, <<"T","e","m","p","l","a","t","e">>, <<"U","s","e","r">>, <<"W","i","k","i","p","e","d","i","a">>, <<"H","e","l","p">>, <<"M","e","d","i","a","W","i","k","i">>, <<"T","a","l","k">>,
    <<"U","s","e","r"," ","t","a","l","k">>, <<"W","i","k","i","p","e","d","i","a"," ","t","a","l","k">>, <<"M","o","d","u","l","e">> }

\* the limit of size of an article, in characters
LargePageLimit == 3000000

\* the least length of a stored article, stripped
MinArticleLength == 50

\* process_article_fast before the conversion: the result returned, or
\* "convert" if wikitext_to_markdown is called
EarlyResult(title, page_text) ==
    IF StartsWith(LowerStr(page_text), <<"#","r","e","d","i","r","e","c","t">>) THEN "redirect"
    ELSE IF Contains(title, <<":">>) /\ Split(title, <<":">>)[1] \in SkippedNamespaces THEN "skipped"
    ELSE IF Contains(LowerStr(title), <<"(","d","i","s","a","m","b","i","g","u","a","t","i","o","n",")">>) THEN "skipped"
    ELSE IF Len(page_text) > LargePageLimit THEN "skipped"
    ELSE "convert"

\* clean_filename(title): r'[<>:"/\\|?*]' replaced by '_', title.strip(' .'),
\* and the first 200 characters
FileNameLimit == 200
clean_filename(title) ==
    LET replaced == [n \in 1..Len(title) |->
                        IF title[n] \in {"<", ">", ":", "\"", "/", "\\", "|", "?", "*"}
                        THEN "_" ELSE title[n]]
        kept == {n \in 1..Len(replaced) : replaced[n] \notin {" ", "."}}
        stripped == IF kept = {} THEN << >>
                    ELSE SubSeq(replaced, CHOOSE n \in kept : \A k \in kept : n <= k,
                                CHOOSE n \in kept : \A k \in kept : n >= k)
    IN SubSeq(stripped, 1, IF Len(stripped) > FileNameLimit THEN FileNameLimit
                           ELSE Len(stripped))

\* len(markdown_content.split())
WordCount(markdown_content) == Len(Matches(Plus(NotIn(Space)), markdown_content))

\* markdown_output
MarkdownOutput(title, page_id, markdown_content, word_count) ==
    <<"#"," ">> \o title \o <<"\n","\n","*","*","P","a","g","e"," ","I","D",":","*","*"," ">> \o page_id \o <<" "," ","\n","*","*","S","o","u","r","c","e",":","*","*"," ","W","i","k","i","p","e","d","i","a"," ","X","M","L"," ","D","u","m","p"," "," ","\n">>
        \o <<"*","*","W","o","r","d"," ","C","o","u","n","t",":","*","*"," ">> \o Digits(word_count) \o <<"\n","\n","-","-","-","\n","\n">>
        \o markdown_content \o <<"\n">>

\* the row of an article: markdown_output.encode('utf-8') of a page whose
\* characters are ASCII is one byte for each character
ArticleRow(title, page_id, markdown_output) ==
    [page_id |-> page_id, title |-> title, filename |-> clean_filename(title) \o <<".","m","d">>,
     content_size |-> Len(markdown_output), content |-> markdown_output]

\* INSERT without the conflict clause and without the UNIQUE(page_id) of the
\* table
InsertOrReplace_Insert(articles, id, row) ==
    articles \cup {[id |-> id] @@ row}

\* INSERT OR REPLACE INTO articles, with UNIQUE(page_id): the row that holds
\* the page_id is deleted and the new row is inserted with the next id
InsertOrReplace(articles, id, row) ==
    {r \in articles : r.page_id # row.page_id} \cup {[id |-> id] @@ row}

\* open(filepath, 'w') and f.write(content): the file of the name is replaced
WriteFile(files, filename, content) ==
    {f \in files : f.filename # filename} \cup {[filename |-> filename, content |-> content]}

\* how a store ends: it succeeds, it raises before anything is written
\* (cursor.execute, open), or it raises afterwards (db_conn.commit with the
\* row left in the open transaction, f.write with the file left empty)
StoreEnds == {"stored", "raised_before", "raised_after"}

\* the database, or the directory, after the store of the row
StoreRow(b, row, how) ==
    IF how = "raised_before" THEN b
    ELSE IF b.db_conn
    THEN [b EXCEPT !.articles = InsertOrReplace(@, b.next_id, row),
                   !.next_id = @ + 1,
                   !.last_store = IF how = "stored"
                                  THEN {s \in @ : s.page_id # row.page_id} \cup {row} ELSE @,
                   !.unsettled = IF how = "stored" THEN @ \ {row.page_id}
                                 ELSE @ \cup {row.page_id}]
    ELSE [b EXCEPT !.files = WriteFile(@, row.filename,
                                       IF how = "stored" THEN row.content ELSE << >>)]

\* wikitext_to_markdown(text, timeout_seconds=30) on a page that is converted
\* within the timeout: the steps of the pipeline in their order, on the
\* locals [text, blocks, raised]
ConversionSteps ==
    <<"unescape", "preserve", "comments", "templates", "tables", "markup", "formatting",
      "size", "lists", "headings", "links", "refs", "entities", "html", "cleanup",
      "restore", "final">>

ConversionStep(name, st) ==
    CASE name = "unescape" -> [st EXCEPT !.text = Unescape(@)]
      [] name = "preserve" -> [st EXCEPT !.blocks = PreserveBlocks(st.text).blocks,
                                         !.text = PreserveBlocks(@).text]
      [] name = "comments" -> [st EXCEPT !.text = StripComments(@)]
      [] name = "templates" -> [st EXCEPT !.text = RemoveComplexTemplates(@, 0).text]
      [] name = "tables" -> [st EXCEPT !.text = ConvertTables(@, 0)]
      [] name = "markup" -> [st EXCEPT !.text = RemoveMarkup(@)]
      [] name = "formatting" -> [st EXCEPT !.text = ConvertFormatting(@)]
      [] name = "size" -> [st EXCEPT !.text = ConvertSizeTags(@)]
      [] name = "lists" -> [st EXCEPT !.text = ConvertLists(@)]
      [] name = "headings" -> [st EXCEPT !.text = ConvertHeadings(@)]
      [] name = "links" -> [st EXCEPT !.text = ConvertLinks(@)]
      [] name = "refs" -> [st EXCEPT !.text = RemoveRefs(@)]
      [] name = "entities" -> IF DecodeRaises(st.text) THEN [st EXCEPT !.raised = TRUE]
                              ELSE [st EXCEPT !.text = DecodeEntities(@)]
      [] name = "html" -> [st EXCEPT !.text = ConvertHtml(@)]
      [] name = "cleanup" -> [st EXCEPT !.text = CleanUp(@)]
      [] name = "restore" -> [st EXCEPT !.text = RestoreBlocks(st.blocks, @)]
      [] name = "final" -> [st EXCEPT !.text = FinalCleanUp(@)]

\* the steps from the k-th on, until one raises
RECURSIVE ConvertFrom(_, _)
ConvertFrom(k, st) ==
    IF k > Len(ConversionSteps) \/ st.raised THEN st
    ELSE ConvertFrom(k + 1, ConversionStep(ConversionSteps[k], st))

\* what the call returns: it raises (the ValueError of chr() in Step 13), or
\* it returns the Markdown
CallEnd(st) ==
    [raised |-> st.raised, markdown_content |-> IF st.raised THEN << >> ELSE st.text]

\* the call for the text t
ConversionOf(t) ==
    IF t = << >> THEN [raised |-> FALSE, markdown_content |-> << >>]
    ELSE CallEnd(ConvertFrom(1, [text |-> t, blocks |-> << >>, raised |-> FALSE]))

\* the calls for the texts of the dumps, as pairs of a text and its call
\* with what process_article_fast computes of the Markdown:
\* len(markdown_content.strip()) and len(markdown_content.split())
Measured(conversion) ==
    [raised |-> conversion.raised, markdown_content |-> conversion.markdown_content,
     stripped_length |-> Len(Strip(conversion.markdown_content)),
     word_count |-> WordCount(conversion.markdown_content)]
Conversions == {<<t, Measured(ConversionOf(t))>> : t \in PageTexts}
Conversion(t) == (CHOOSE call \in Conversions : call[1] = t)[2]

\* the result process_article_fast returns from an except clause
ExceptionResult_Raised == "raised"

ExceptionResult == "error"

\* process_article_fast from the return of wikitext_to_markdown on:
\* [result returned, the batch after the store, where an exception was
\* raised]
AfterConversion(b, conversion, how) ==
    IF conversion.raised
    THEN [result |-> ExceptionResult, batch |-> b, exception |-> "conversion"]
    ELSE IF conversion.stripped_length < MinArticleLength
    THEN [result |-> "skipped", batch |-> b, exception |-> "none"]
    ELSE [result |-> IF how = "stored" THEN "success" ELSE ExceptionResult,
          exception |-> IF how = "stored" THEN "none" ELSE "store",
          batch |-> StoreRow(b, ArticleRow(ValueOf(b.current_page, "title"),
                                            ValueOf(b.current_page, "id"),
                                            MarkdownOutput(ValueOf(b.current_page, "title"),
                                                           ValueOf(b.current_page, "id"),
                                                           conversion.markdown_content,
                                                           conversion.word_count)),
                          how)]

\* process_article_fast(current_page, output_path, db_conn), for a store
\* that ends in the way how
process_article_fast(b, how) ==
    IF EarlyResult(ValueOf(b.current_page, "title"), ValueOf(b.current_page, "text"))
           # "convert"
    THEN [result |-> EarlyResult(ValueOf(b.current_page, "title"),
                                 ValueOf(b.current_page, "text")),
          batch |-> b, exception |-> "none"]
    ELSE AfterConversion(b, Conversion(ValueOf(b.current_page, "text")), how)

\* a redirect counted with the skipped pages
CounterOf_RedirectSkipped(res) ==
    IF res = "success" THEN "article_count"
    ELSE IF res \in {"redirect", "skipped"} THEN "skipped_count"
    ELSE "error_count"

\* the counter incremented for a result
CounterOf(res) ==
    IF res = "success" THEN "article_count"
    ELSE IF res = "redirect" THEN "redirect_count"
    ELSE IF res = "skipped" THEN "skipped_count"
    ELSE "error_count"

\* the result is counted and the page is left
Counted(b, res) ==
    [b EXCEPT ![CounterOf(res)] = @ + 1, !.results = Append(@, res), !.in_page = FALSE]

\* the variables of the other functions
callVars ==
    <<input, timeout_seconds, fillLen, fill_width, scanVars, tableVars, first_result,
      elapsed, text, text_fill, preserved_blocks, block_counter, stages, out, out_fill,
      ret_path>>
idleVars == <<pc, callVars>>

BatchInit ==
    /\ pc = "batch_read"
    /\ \E db_conn \in BOOLEAN : batch = BatchStart(db_conn)
    /\ input = << >>
    /\ fillLen = 0
    /\ fill_width = 1
    /\ scan_text = << >>
    /\ i = 0
    /\ brace_stack = << >>
    /\ result = << >>
    /\ result_fill = 0
    /\ iteration_count = 0
    /\ out = << >>
    /\ out_fill = 0
    /\ ret_path = "none"
    /\ TableIdle
    /\ first_result = << >>
    /\ timeout_seconds = 0
    /\ elapsed = 0
    /\ text = << >>
    /\ text_fill = 0
    /\ preserved_blocks = << >>
    /\ block_counter = 0
    /\ stages = << >>

\* the next line of the dump is read and takes the branch of the loop body
Reads(line, branch) ==
    /\ pc = "batch_read"
    /\ batch.line_count < MaxLines
    /\ Branch(batch, TestsOf(line)) = branch

\* if '<page>' in line
P_PageStart ==
    \E line \in DumpLines(batch) :
        /\ Reads(line, "page")
        /\ batch' = [Counting(batch, line) EXCEPT !.in_page = TRUE,
                                                 !.current_page = EmptyPage,
                                                 !.current_content = << >>]
        /\ UNCHANGED idleVars

\* if '</page>' in line and in_page, for a page that lacks a title, a text
\* or an id
P_DropPage ==
    \E line \in DumpLines(batch) :
        /\ Reads(line, "end")
        /\ ~Complete(batch.current_page)
        /\ batch' = [Counting(batch, line) EXCEPT !.in_page = FALSE]
        /\ UNCHANGED idleVars

\* process_article_fast has returned r: its result is counted
Returns(r) ==
    /\ batch' = [Counted(r.batch, r.result) EXCEPT !.exceptions = Append(@, r.exception)]
    /\ pc' = IF r.result = "raised" THEN "batch_failed" ELSE "batch_read"

\* if '</page>' in line and in_page, for a page that has the three: the
\* call of process_article_fast and the count of its result.  (An
\* exception that leaves process_article_fast ends the run in the handler
\* of parse_wikipedia_xml_fast.)
P_ClosePage ==
    \E line \in DumpLines(batch), how \in StoreEnds :
        /\ Reads(line, "end")
        /\ Complete(batch.current_page)
        /\ Returns(process_article_fast(Counting(batch, line), how))
        /\ UNCHANGED callVars

\* if not in_page: continue
P_Outside ==
    \E line \in DumpLines(batch) :
        /\ Reads(line, "outside")
        /\ batch' = Counting(batch, line)
        /\ UNCHANGED idleVars

\* a branch of the loop body that reads a field of the page
ReadsField(branch, line, after) ==
    /\ Reads(line, branch)
    /\ batch' = Counting(after, line)
    /\ UNCHANGED idleVars

P_Title ==
    \E line \in DumpLines(batch) :
        ReadsField("title", line, ReadTitle(batch, TestsOf(line)))
P_InTitle ==
    \E line \in DumpLines(batch) :
        ReadsField("in_title", line, ReadInTitle(batch, TestsOf(line)))
P_Id ==
    \E line \in DumpLines(batch) :
        ReadsField("id", line, ReadId(batch, TestsOf(line)))
P_Text ==
    \E line \in DumpLines(batch) :
        ReadsField("text", line, ReadText(batch, TestsOf(line)))
P_InText ==
    \E line \in DumpLines(batch) :
        ReadsField("in_text", line, ReadInText(batch, TestsOf(line)))

\* a line of the page that no test takes
P_Other ==
    \E line \in DumpLines(batch) :
        ReadsField("other", line, batch)

\* the dump has no more lines: the final statistics
P_End ==
    /\ pc = "batch_read"
    /\ pc' = "batch_done"
    /\ UNCHANGED <<batch, callVars>>

\* reading the next line raises (the bytes are not UTF-8): the handler of
\* parse_wikipedia_xml_fast prints the error and calls sys.exit(1)
P_ReadError ==
    /\ pc = "batch_read"
    /\ batch.line_count < MaxLines
    /\ pc' = "batch_failed"
    /\ UNCHANGED <<batch, callVars>>

BatchNext ==
    \/ P_PageStart \/ P_DropPage \/ P_ClosePage \/ P_Outside
    \/ P_Title \/ P_InTitle \/ P_Id \/ P_Text \/ P_InText \/ P_Other
    \/ P_End \/ P_ReadError

BatchSpec == BatchInit /\ [][BatchNext]_vars

(***************************************************************************)
(* Words of the claim about references.                                    *)
(***************************************************************************)
\* a reference element of the text: a self-closing <ref ... /> tag, or a
\* <ref ...> tag that is not self-closing with the text up to the next </ref>
RefElementRe ==
    Alt(<<Cat(<<LitI(<<"<","r","e","f">>), LazyStar(NotIn({">"})), Lit(<<"/",">">>)>>),
          Cat(<<LitI(<<"<","r","e","f">>), Star(NotIn({">"})), Lit(<<">">>), LazyStar(AnyChar),
                LitI(<<"<","/","r","e","f",">">>)>>)>>)

\* the text t without its reference elements
OutsideRefs(t) == Sub(RefElementRe, << >>, t)

(***************************************************************************)
(* C21. The step that removes the references deletes the <ref ...>...</ref>*)
(* elements and the self-closing <ref ... /> tags and keeps every          *)
(* character outside them, the prose between a self-closing tag and a      *)
(* later <ref>...</ref> element included.                                  *)
(***************************************************************************)
C21_OnlyRefsRemoved ==
    [][(pc = "step_12" /\ pc' = "step_13" /\ input \in RefDocs)
          => text' = OutsideRefs(text)]_vars

(***************************************************************************)
(* Words of the claim about placeholder keys.                              *)
(***************************************************************************)
\* the number of places of the text t where the text needle stands
Occurrences(t, needle) == Cardinality({s \in 1..Len(t) : LitAt(t, s, needle, FALSE)})

(***************************************************************************)
(* C24. Every placeholder key is fresh when minted: after the preservation *)
(* step the counter is the number of keys minted, no key was minted twice, *)
(* and no key stands in the buffer at another place than the one it was   *)
(* put at for its element; so it stood nowhere in the buffer before,       *)
(* neither as an earlier key nor as text of the document.                  *)
(***************************************************************************)
C24_FreshKeys ==
    pc = "step_3" =>
        /\ block_counter = Len(preserved_blocks)
        /\ Cardinality(MintedKeys) = Len(preserved_blocks)
        /\ \A key \in MintedKeys : Occurrences(text, key) <= 1

(***************************************************************************)
(* Words of the claim about lists.                                         *)
(***************************************************************************)
\* the list restructuring step has run on the buffer
Restructured == pc = "step_9" /\ pc' = "step_10"

\* the item of a line of h '#' and s '*': indented h + s - 1 levels of two
\* spaces, a '1. ' item for a run of '#' alone and a '- ' bullet otherwise
ListOut(h, s) ==
    Repeat(<<" "," ">>, h + s - 1) \o (IF s = 0 THEN <<"1","."," ">> ELSE <<"-"," ">>) \o <<"i","t","e","m">>

\* the definition list lines are rewritten as the claim says
DefinitionLines ==
    /\ text = <<";"," ","t","e","r","m">> => text' = <<"*","*","t","e","r","m","*","*">>
    /\ text = <<":"," ","t","e","x","t">> => text' = <<":"," ","t","e","x","t">>

(***************************************************************************)
(* C25, as stated. List restructuring turns every line that starts with a  *)
(* run of h '#' and s '*' into an item indented h + s - 1 levels, whether  *)
(* or not white space stands between the run and the text of the item.     *)
(***************************************************************************)
C25_ListLines ==
    [][Restructured =>
          /\ \A r \in ListRuns, gap \in ListGaps :
                text = ListLine(r[1], r[2], gap) => text' = ListOut(r[1], r[2])
          /\ DefinitionLines]_vars

(***************************************************************************)
(* C25, amended. List restructuring turns a line that starts with a run of *)
(* h '#' and s '*' followed by white space and the text of the item into   *)
(* an item indented h + s - 1 levels ('1. ' for '#' alone, '- ' otherwise);*)
(* a line where the text follows the run directly is left as it is; a line *)
(* '; term' becomes '**term**' and a line ': text' stays ': text'.         *)
(***************************************************************************)
C25_SpacedListLines ==
    [][Restructured =>
          /\ \A r \in ListRuns :
                /\ text = ListLine(r[1], r[2], <<" ">>) => text' = ListOut(r[1], r[2])
                /\ text = ListLine(r[1], r[2], << >>) => text' = text
          /\ text = <<"*"," ","a","\n","*","*"," ","b","\n","#","*"," ","c">> => text' = <<"-"," ","a","\n"," "," ","-"," ","b","\n"," "," ","-"," ","c">>
          /\ DefinitionLines]_vars

C25_Witness ==
    /\ pc = "step_10"
    /\ input = ListLine(MaxRun, MaxRun, <<" ">>)
    /\ text = ListOut(MaxRun, MaxRun)

(***************************************************************************)
(* C26. Cleaning a table cell removes only a leading attribute segment and *)
(* then converts the links of the cell: the cell [[Article|Text]], with or *)
(* without an attribute segment before it, is rendered as [Text](Article). *)
(***************************************************************************)
C26_CellContentKept ==
    (Structured /\ input \in LinkTables) => Contains(out, <<"[","T","e","x","t","]","(","A","r","t","i","c","l","e",")">>)

(***************************************************************************)
(* C27. The final cleanup removes emphasis markers only where they enclose *)
(* nothing: a buffer whose markers all delimit text, as *a* *b* for the    *)
(* document ''a'' ''b'', and an identifier __init__ restored from a        *)
(* preserved block are returned as they are.                               *)
(***************************************************************************)
C27_MarkersOfTextKept ==
    (Rendered /\ input \in EmphasisDocs) => out = text

(***************************************************************************)
(* Words of the claims about the balanced-brace scan.                      *)
(***************************************************************************)
\* the loop of the scan has run one step, of Iterations iterations
ScanStepped == pc = "rct_loop" /\ pc' = "rct_loop"
Iterations == iteration_count' - iteration_count

\* the loop of the scan has ended
ScanEnded == pc = "rct_done" /\ ret_path \in {"joined", "fallback"}

PageProcessed == Len(batch'.results) = Len(batch.results) + 1
LastResult == batch'.results[Len(batch'.results)]
LastException == batch'.exceptions[Len(batch'.exceptions)]

\* the number of calls that returned the result
ResultsOf(res) == Cardinality({k \in 1..Len(batch.results) : batch.results[k] = res})

\* the counters of the run
CounterNames == {"article_count", "redirect_count", "skipped_count", "error_count"}

(***************************************************************************)
(* C22. In a batch run an exception raised while a page is converted or    *)
(* stored is caught for that page alone: process_article_fast returns      *)
(* 'error', error_count grows by one and no other counter changes, and the *)
(* loop goes on reading the dump, so the later pages are processed.        *)
(***************************************************************************)
C22_ErrorStaysWithThePage ==
    [][(PageProcessed /\ LastException # "none") =>
            /\ LastResult = "error"
            /\ batch'.error_count = batch.error_count + 1
            /\ \A c \in CounterNames \ {"error_count"} : batch'[c] = batch[c]
            /\ pc' = "batch_read"
            /\ batch'.line_count = batch.line_count + 1]_vars

C22_Witness ==
    /\ batch.exceptions = <<"conversion", "none">>
    /\ batch.results = <<"error", "success">>
    /\ batch.error_count = 1
    /\ batch.article_count = 1

(***************************************************************************)
(* C23. In database mode the articles table holds at most one row for a    *)
(* page_id, and for a page_id whose last store succeeded that row carries  *)
(* the title, the filename and the content of that store.                  *)
(***************************************************************************)
C23_LastWriteWins ==
    batch.db_conn =>
        /\ \A r1, r2 \in batch.articles : r1.page_id = r2.page_id => r1 = r2
        /\ \A s \in batch.last_store :
              s.page_id \notin batch.unsettled =>
                  \E r \in batch.articles :
                      /\ r.page_id = s.page_id
                      /\ r.title = s.title
                      /\ r.filename = s.filename
                      /\ r.content = s.content

C23_Witness ==
    /\ batch.db_conn
    /\ batch.results = <<"success", "success">>
    /\ batch.next_id = 3
    /\ \E r \in batch.articles : r.page_id = <<"1">> /\ r.title = <<"p","h","a">> /\ r.id = 2
    /\ Cardinality(batch.articles) = 1

(***************************************************************************)
(* C30. In parse_wikipedia_xml_fast the four counters add up to the number *)
(* of '</page>' lines met in a page that had a title, a text and an id:    *)
(* each of them makes one call of process_article_fast and increments the  *)
(* one counter of its result; a page closed without one of the three       *)
(* increments none; and the id kept for a page is the first '<id>' after   *)
(* its '<page>' line.                                                      *)
(***************************************************************************)
C30_OneCounterForEachPage ==
    /\ [](/\ batch.article_count + batch.redirect_count + batch.skipped_count
                + batch.error_count = batch.closed
          /\ Len(batch.results) = batch.closed
          /\ batch.article_count = ResultsOf("success")
          /\ batch.redirect_count = ResultsOf("redirect")
          /\ batch.skipped_count = ResultsOf("skipped")
          /\ batch.error_count = ResultsOf("error")
          /\ batch.current_page.id = batch.first_id)
    /\ [][batch'.dropped # batch.dropped =>
              /\ \A c \in CounterNames : batch'[c] = batch[c]
              /\ batch'.results = batch.results]_vars

C30_Witness ==
    /\ batch.dropped = 1
    /\ batch.results = <<"redirect">>
    /\ batch.redirect_count = 1
    /\ batch.rank = Place("revision id")
    /\ batch.first_id = Holding(<<"2">>)
    /\ batch.current_page.id = Holding(<<"2">>)

====
